---- MODULE Spec2Model ----
(***************************************************************************)
(* Jellyfin media organizer: the file mover, the scan job and the organize *)
(* job pipeline of server/routes.ts, over an abstract filesystem and the   *)
(* storage records they read and write.                                    *)
(***************************************************************************)
EXTENDS Integers, Sequences, FiniteSets, TLC

(***************************************************************************)
(* Bounds of the model.                                                    *)
(***************************************************************************)
\* largest byte size of a file
MaxSize == 1

Sizes == 0..MaxSize

(***************************************************************************)
(* The filesystem: a partial function from the paths that exist to the     *)
(* byte size of the file there.                                            *)
(***************************************************************************)
\* Three downloads of the series "Show" under the source folder /in (two
\* copies of episode 1, one of episode 2) and the two episode files the
\* organizer builds for them under the TV destination /tv.
InE1 == "/in/Show.S01E01.mkv"

InE1b == "/in/Show.S01E01.720p.mkv"

InE2 == "/in/Show.S01E02.mkv"

TvE1 == "/tv/Show/Season 01/Show - S01E01.mkv"

TvE2 == "/tv/Show/Season 01/Show - S01E02.mkv"

SourcePaths == {InE1, InE1b, InE2}

LibraryPaths == {TvE1, TvE2}

Paths == SourcePaths \cup LibraryPaths

FileSystems == UNION {[S -> Sizes] : S \in SUBSET Paths}

Exists(f, p) == p \in DOMAIN f

\* fs.promises.unlink on an existing file
Unlink(f, p) == [q \in (DOMAIN f) \ {p} |-> f[q]]

\* a file of size n written at p (created or replaced)
WriteFile(f, p, n) == [q \in (DOMAIN f) \cup {p} |-> IF q = p THEN n ELSE f[q]]

\* a rename that leaves the source behind
RenameKeepingSource(f, s, d) == WriteFile(f, d, f[s])

\* fs.promises.rename within one filesystem: the destination entry is
\* replaced by the source file and the source entry is gone
RenameFile(f, s, d) == Unlink(WriteFile(f, d, f[s]), s)

(***************************************************************************)
(* moveFileToDestination, one step per filesystem call.  A call in flight  *)
(* is a record c; every step maps (c, f) to the set of its possible        *)
(* outcomes [c |-> c2, f |-> f2].                                          *)
(***************************************************************************)
NoCall == [pc |-> "idle", src |-> "", dst |-> "", sourceSize |-> 0,
           exdev |-> FALSE, destStat |-> "none", destSize |-> 0,
           success |-> FALSE, error |-> ""]

EnterMove(s, d) == [NoCall EXCEPT !.pc = "access_source", !.src = s, !.dst = d]

ReturnFailure(c, msg) == [c EXCEPT !.pc = "done", !.success = FALSE, !.error = msg]

ReturnSuccess(c) == [c EXCEPT !.pc = "done", !.success = TRUE]

Goto(c, label) == [c EXCEPT !.pc = label]

\* access(actualSource, R_OK): fails on a missing file, may fail on an
\* unreadable one
AccessSource(c, f) ==
  {[c |-> ReturnFailure(c, "Source file not found"), f |-> f]}
  \cup (IF Exists(f, c.src) THEN {[c |-> Goto(c, "mkdir"), f |-> f]} ELSE {})

\* mkdir(destDir, {recursive: true}): a throw reaches the outer catch
MakeDestDir(c, f) ==
  {[c |-> Goto(c, "access_dest"), f |-> f],
   [c |-> ReturnFailure(c, "mkdir failed"), f |-> f]}

DestOccupiedNever(f, d) == FALSE

\* access(actualDest) succeeded
DestOccupied(f, d) == Exists(f, d)

AccessDest(c, f) ==
  IF DestOccupied(f, c.dst)
  THEN {[c |-> ReturnFailure(c, "Destination already exists"), f |-> f]}
  ELSE {[c |-> Goto(c, "rename"), f |-> f]}

\* rename(actualSource, actualDest): done, EXDEV, or another error (rethrown)
Rename(c, f) ==
  {[c |-> ReturnFailure(c, "rename failed"), f |-> f]}
  \cup (IF Exists(f, c.src)
        THEN {[c |-> Goto(c, "final_access"), f |-> RenameFile(f, c.src, c.dst)],
              [c |-> [c EXCEPT !.pc = "stat_source", !.exdev = TRUE], f |-> f]}
        ELSE {})

\* stat(actualSource) in the EXDEV fallback
StatSource(c, f) ==
  {[c |-> ReturnFailure(c, "stat failed"), f |-> f]}
  \cup (IF Exists(f, c.src)
        THEN {[c |-> [c EXCEPT !.pc = "copy", !.sourceSize = f[c.src]], f |-> f]}
        ELSE {})

\* copyFile(actualSource, actualDest): a full copy, a short copy, or a throw
CopyFile(c, f) ==
  {[c |-> ReturnFailure(c, "copy failed"), f |-> f]}
  \cup (IF Exists(f, c.src)
        THEN {[c |-> Goto(c, "stat_dest"), f |-> WriteFile(f, c.dst, n)] :
                n \in 0..f[c.src]}
        ELSE {})

VerifyNothing(destSize, sourceSize) == TRUE

\* destStats.size !== sourceSize is a failed copy
VerifyCopy(destSize, sourceSize) == destSize = sourceSize

\* stat(actualDest) and the size comparison
StatDest(c, f) ==
  {[c |-> ReturnFailure([c EXCEPT !.destStat = "error"],
                        "Copy verification failed: destination not accessible"),
    f |-> f]}
  \cup (IF Exists(f, c.dst)
        THEN LET c2 == [c EXCEPT !.destStat = "ok", !.destSize = f[c.dst]]
             IN  IF VerifyCopy(c2.destSize, c2.sourceSize)
                 THEN {[c |-> Goto(c2, "unlink_source"), f |-> f]}
                 ELSE {[c |-> Goto(c2, "unlink_dest"), f |-> f]}
        ELSE {})

\* unlink(actualDest).catch(() => {}) and the size-mismatch return
UnlinkDest(c, f) ==
  LET r == ReturnFailure(c, "Copy verification failed: size mismatch")
  IN  {[c |-> r, f |-> Unlink(f, c.dst)], [c |-> r, f |-> f]}

\* unlink(actualSource): a throw reaches the outer catch
UnlinkSource(c, f) ==
  {[c |-> Goto(c, "final_access"), f |-> Unlink(f, c.src)],
   [c |-> ReturnFailure(c, "unlink failed"), f |-> f]}

\* access(actualDest, R_OK) after the move
FinalAccess(c, f) ==
  {[c |-> ReturnFailure(c, "Move failed: destination not accessible after move"),
    f |-> f]}
  \cup (IF Exists(f, c.dst) THEN {[c |-> ReturnSuccess(c), f |-> f]} ELSE {})

MoveStep(c, f) ==
  CASE c.pc = "access_source" -> AccessSource(c, f)
    [] c.pc = "mkdir"         -> MakeDestDir(c, f)
    [] c.pc = "access_dest"   -> AccessDest(c, f)
    [] c.pc = "rename"        -> Rename(c, f)
    [] c.pc = "stat_source"   -> StatSource(c, f)
    [] c.pc = "copy"          -> CopyFile(c, f)
    [] c.pc = "stat_dest"     -> StatDest(c, f)
    [] c.pc = "unlink_dest"   -> UnlinkDest(c, f)
    [] c.pc = "unlink_source" -> UnlinkSource(c, f)
    [] c.pc = "final_access"  -> FinalAccess(c, f)
    [] OTHER                  -> {}

RECURSIVE MoveRun(_, _)
MoveRun(c, f) ==
  IF c.pc = "done" THEN {[c |-> c, f |-> f]}
  ELSE UNION {MoveRun(n.c, n.f) : n \in MoveStep(c, f)}

\* every way a whole call moveFileToDestination(s, d) can end on filesystem f
moveFileToDestination(s, d, f) == MoveRun(EnterMove(s, d), f)

(***************************************************************************)
(* The catalogue and the settings.                                         *)
(***************************************************************************)
\* most client requests issued in one run of the model
MaxRequests == 2

\* most MediaItem records the catalogue holds
MaxItems == 2

\* longest ids list of an organize request
MaxBatch == 3

BATCH_SIZE == 50

CHUNK_SIZE == 10

\* the folders a scan walks (settings moviesPaths / tvShowsPaths)
Roots == {"/in", "/tv"}

RootOf(p) == IF p \in SourcePaths THEN "/in" ELSE "/tv"

\* the TV destination base paths a user may store (settings
\* tvShowsDestination is kept as typed, with or without a trailing slash)
TvBases == {"/tv", "/tv/"}

\* the series folder names: titleCase of the detected name, and the name and
\* year the metadata provider returns for it
FolderPlain == "Show"

FolderTmdb == "Show (2020)"

Folders == {FolderPlain, FolderTmdb}

Episodes == {1, 2}

\* S${season padded}E${episode padded}
EpisodeTag(e) == IF e = 1 THEN "S01E01" ELSE "S01E02"

\* `${basePaths.tvshows}/${seriesFolder}/${seasonFolder}/${fileName}`
TvPath(base, folder, e) ==
  base \o "/" \o folder \o "/Season 01/Show - " \o EpisodeTag(e) \o ".mkv"

\* the episode files of the series under the folder the provider names
TvE1y == TvPath("/tv", FolderTmdb, 1)

TvE2y == TvPath("/tv", FolderTmdb, 2)

\* every file path under the TV destination, as the directory walk yields it
AllLibraryPaths == {TvPath("/tv", fo, e) : fo \in Folders, e \in Episodes}

\* every destination path string the organizer can build
DestinationPaths == {TvPath(b, fo, e) : b \in TvBases, fo \in Folders, e \in Episodes}

\* a path with runs of slashes collapsed (replace(/\/+/g, "/")), which is
\* also the file the operating system resolves the path to
NormalizePath(p) ==
  IF \E fo \in Folders, e \in Episodes : p = TvPath("/tv/", fo, e)
  THEN LET k == CHOOSE k \in Folders \X Episodes : p = TvPath("/tv/", k[1], k[2])
       IN  TvPath("/tv", k[1], k[2])
  ELSE p

\* the episode number parseMediaFilename finds in the basename of p
EpisodeOf(p) ==
  IF p \in {InE1, InE1b} \/ \E b \in TvBases, fo \in Folders : p = TvPath(b, fo, 1)
  THEN 1 ELSE 2

\* the series folder of a destination path
FolderOf(d) == CHOOSE fo \in Folders : \E b \in TvBases, e \in Episodes : d = TvPath(b, fo, e)

\* path.dirname
DirOf(p) ==
  IF p \in SourcePaths THEN "/in"
  ELSE IF p \in DestinationPaths /\ FolderOf(p) = FolderTmdb
       THEN "/tv/Show (2020)/Season 01"
       ELSE "/tv/Show/Season 01"

\* stored settings: the library folders to scan, the TV destination ("" when
\* no destination is set) and whether a metadata API key is configured
AllConfigurations == [folders : {{"/in"}, {"/in", "/tv"}},
                      tvShowsDestination : {""} \cup TvBases,
                      tmdbApiKey : BOOLEAN]

\* the configurations without metadata lookups and with the plain base path
Configurations ==
  {s \in AllConfigurations : ~s.tmdbApiKey /\ s.tvShowsDestination \in {"", "/tv"}}

\* !moviesDestination && !tvShowsDestination is false
HasDestination(s) == s.tvShowsDestination # ""

(***************************************************************************)
(* The TV series records and the destination of an episode.                *)
(***************************************************************************)
NoSeries == [id |-> 0, folderPath |-> "", totalEpisodes |-> 0]

\* storage.getTvSeriesByName: the first record whose normalized name equals
\* the item's; every name of the model normalizes to "show"
getTvSeriesByName(series) ==
  IF series = <<>> THEN NoSeries
  ELSE [id |-> 1, folderPath |-> series[1].folderPath,
        totalEpisodes |-> series[1].totalEpisodes]

\* getCanonicalSeriesFolder: the stored folder of the first matching series,
\* else the title-cased detected name
getCanonicalSeriesFolder(series) ==
  IF series # <<>> /\ series[1].folderPath # "" THEN series[1].folderPath
  ELSE FolderPlain

\* generateDestinationPath for the file p: the provider's name and year when
\* the lookup returned a result, else the canonical folder
generateDestinationPath(p, base, tmdb, series) ==
  TvPath(base, IF tmdb THEN FolderTmdb ELSE getCanonicalSeriesFolder(series),
         EpisodeOf(p))

\* pathParts[1] of the destination path, for a base path of one segment
SeriesFolderName(d) == FolderOf(d)

WriteSeriesFolderOfEpisode(series, read, d) ==
  IF read.id = 0
  THEN Append(series, [folderPath |-> SeriesFolderName(d), totalEpisodes |-> 1])
  ELSE [series EXCEPT ![read.id] =
          [folderPath |-> SeriesFolderName(d),
           totalEpisodes |-> read.totalEpisodes + 1]]

\* createTvSeries when the read found none, else updateTvSeries with the
\* counters of the record as it was read:
\* folderPath: series.folderPath || seriesFolderName
WriteSeries(series, read, d) ==
  IF read.id = 0
  THEN Append(series, [folderPath |-> SeriesFolderName(d), totalEpisodes |-> 1])
  ELSE [series EXCEPT ![read.id] =
          [folderPath |-> IF read.folderPath # "" THEN read.folderPath
                          ELSE SeriesFolderName(d),
           totalEpisodes |-> read.totalEpisodes + 1]]

\* the outcomes lookupTmdb can have: the cached result, nothing without an
\* API key, else a result or nothing
TmdbOutcomes(s, cached) ==
  IF cached THEN {TRUE} ELSE IF s.tmdbApiKey THEN BOOLEAN ELSE {FALSE}

NoItem == [originalFilename |-> "", originalPath |-> "", destinationPath |-> "",
           status |-> "none", duplicateOf |-> 0, deleted |-> TRUE]

\* the record createMediaItem stores
NewItem(p, d, st) == [originalFilename |-> p, originalPath |-> p,
                      destinationPath |-> d, status |-> st,
                      duplicateOf |-> 0, deleted |-> FALSE]

\* storage.getMediaItemById
getMediaItemById(items, id) ==
  IF id \in 1..Len(items) /\ ~items[id].deleted THEN items[id] ELSE NoItem

\* storage.getMediaItemByPath: is a file catalogued under exactly this path
getMediaItemByPath(items, p) ==
  \E i \in 1..Len(items) : ~items[i].deleted /\ items[i].originalPath = p

\* storage.updateMediaItem: merges the updates into an existing record
updateMediaItem(items, id, st, p) ==
  IF id \in 1..Len(items) /\ ~items[id].deleted
  THEN [items EXCEPT ![id].status = st, ![id].originalPath = p]
  ELSE items

ActiveStatuses == {"pending", "running"}

TerminalStatuses == {"completed", "failed"}

\* storage.getActiveScanJob / getActiveOrganizeJob: the jobs pending or running
ActiveJobs(jobs) == {j \in 1..Len(jobs) : jobs[j].status \in ActiveStatuses}

(***************************************************************************)
(* cleanupEmptyFolders: the directories it walks.                          *)
(***************************************************************************)
\* the directories of the model: a source folder /in with two levels below
\* it, and /srv with a folder whose path ends in "/in"
Directories == {"/in", "/in/a", "/in/a/b", "/srv", "/srv/in"}

\* path.dirname
Parent(d) ==
  CASE d = "/in" -> "/"
    [] d = "/in/a" -> "/in"
    [] d = "/in/a/b" -> "/in/a"
    [] d = "/srv" -> "/"
    [] d = "/srv/in" -> "/srv"
    [] OTHER -> "/"

\* the rootBoundaries a caller may pass: the configured source folders
RootLists == {{}, {"/in"}, {"/in/"}, {"/srv/in"}}

\* path.normalize(r).replace(/\/$/, "")
NormalizeRoot(r) == IF r = "/in/" THEN "/in" ELSE r

\* normalizedCurrent === root || normalizedCurrent.endsWith(root)
HitsBoundary(d, roots) ==
  \E r \in roots :
    \/ d = NormalizeRoot(r)
    \/ NormalizeRoot(r) = "/in" /\ d = "/srv/in"

\* the trees on disk: the directories that exist, each with its parent, and
\* the ones among them that hold a file
Trees ==
  {t \in [dirs : SUBSET Directories, files : SUBSET Directories] :
     /\ t.files \subseteq t.dirs
     /\ \A d \in t.dirs : Parent(d) = "/" \/ Parent(d) \in t.dirs}

NoTree == [dirs |-> {}, files |-> {}]

\* fs.promises.readdir(dir).length
Contents(t, d) ==
  Cardinality({c \in t.dirs : Parent(c) = d}) + (IF d \in t.files THEN 1 ELSE 0)

\* fs.promises.rmdir on an empty directory
Rmdir(t, d) == [t EXCEPT !.dirs = @ \ {d}]

NoCleanup == [pc |-> "idle", currentDir |-> "", roots |-> {}, deleted |-> <<>>]

\* no findDuplicates call yet
NoDuplicates == [called |-> FALSE, threshold |-> 0, groups |-> <<>>]

(***************************************************************************)
(* parseMediaFilename on file names given as sequences of characters.      *)
(***************************************************************************)
\* longest file name of the model
MaxNameLen == 7

\* the characters of the file names: the letters the patterns look for and
\* three digits.  No name over them holds a year (19xx / 20xx), white space
\* or the word "season", so the year branch and the patterns
\* /season\s*(\d{1,2})\s*episode\s*(\d{1,3})/i and /[Ss](\d{1,2})\s+[Ee](\d{1,3})/
\* never apply to them
Characters == {"S", "E", "x", "0", "1", "5"}

Digits == {"0", "1", "5"}

\* the number of digits at positions i, i + 1, ... of s, counted up to max
RECURSIVE DigitRun(_, _, _)
DigitRun(s, i, max) ==
  IF max = 0 \/ i > Len(s) THEN 0
  ELSE IF s[i] \in Digits THEN 1 + DigitRun(s, i + 1, max - 1)
  ELSE 0

\* parseInt(match[n], 10) for the k digits of s from position i
RECURSIVE parseInt(_, _, _)
parseInt(s, i, k) ==
  LET value(c) == CASE c = "0" -> 0 [] c = "1" -> 1 [] c = "5" -> 5
  IN  IF k = 0 THEN 0
      ELSE 10 * parseInt(s, i, k - 1) + value(s[i + k - 1])

\* the positions where /[Ss](\d{1,2})[Ee](\d{1,3})/ matches
SeasonEpisodeAt(s) ==
  {i \in 1..Len(s) :
     /\ s[i] \in {"S", "s"}
     /\ LET k == DigitRun(s, i + 1, 2)
        IN  /\ k >= 1
            /\ i + k + 1 <= Len(s)
            /\ s[i + k + 1] \in {"E", "e"}
            /\ DigitRun(s, i + k + 2, 3) >= 1}

\* the positions where /(\d{1,2})[xX](\d{1,3})/ matches
NumberXNumberAt(s) ==
  {i \in 1..Len(s) :
     LET k == DigitRun(s, i, 2)
     IN  /\ k >= 1
         /\ i + k <= Len(s)
         /\ s[i + k] \in {"x", "X"}
         /\ DigitRun(s, i + k + 1, 3) >= 1}

\* the positions where /[Ee][Pp]?(\d{1,3})(?!\d)/ matches
EpisodeOnlyAt(s) ==
  {i \in 1..Len(s) :
     /\ s[i] \in {"E", "e"}
     /\ LET j == IF i < Len(s) /\ s[i + 1] \in {"P", "p"} THEN i + 2 ELSE i + 1
        IN  DigitRun(s, j, 4) \in 1..3}

\* detectTVShowPattern: the first pattern that matches, at its leftmost
\* match; found is FALSE for null
detectTVShowPattern(s) ==
  LET first(S) == CHOOSE i \in S : \A j \in S : i <= j
  IN  IF SeasonEpisodeAt(s) # {}
      THEN LET i == first(SeasonEpisodeAt(s))
               k == DigitRun(s, i + 1, 2)
           IN  [found |-> TRUE, season |-> parseInt(s, i + 1, k),
                episode |-> parseInt(s, i + k + 2, DigitRun(s, i + k + 2, 3))]
      ELSE IF NumberXNumberAt(s) # {}
      THEN LET i == first(NumberXNumberAt(s))
               k == DigitRun(s, i, 2)
           IN  [found |-> TRUE, season |-> parseInt(s, i, k),
                episode |-> parseInt(s, i + k + 1, DigitRun(s, i + k + 1, 3))]
      ELSE IF EpisodeOnlyAt(s) # {}
      THEN LET i == first(EpisodeOnlyAt(s))
               j == IF i < Len(s) /\ s[i + 1] \in {"P", "p"} THEN i + 2 ELSE i + 1
           IN  [found |-> TRUE, season |-> 1,
                episode |-> parseInt(s, j, DigitRun(s, j, 3))]
      ELSE [found |-> FALSE, season |-> 0, episode |-> 0]

\* null, for a season or episode
Null == -1

\* parseMediaFilename: detectedType, season and episode of the result
parseMediaFilename(s) ==
  LET tvPattern == detectTVShowPattern(s)
      orNull(n) == IF n # 0 THEN n ELSE Null
  IN  [type |-> IF tvPattern.found THEN "tvshow" ELSE "unknown",
       season |-> IF tvPattern.found THEN orNull(tvPattern.season) ELSE Null,
       episode |-> IF tvPattern.found THEN orNull(tvPattern.episode) ELSE Null]

\* no file name parsed
NoParse == [filename |-> <<>>, called |-> FALSE,
            type |-> "", season |-> Null, episode |-> Null]

(***************************************************************************)
(* The series folder a TvSeries record stores, read from the segments of   *)
(* the destination path.  A path is the sequence split("/") yields for it; *)
(* "" stands for the empty segment before a leading and after a trailing   *)
(* slash.                                                                  *)
(***************************************************************************)
\* most destinations built under one TV base path
MaxShelfItems == 3

\* settings.tvShowsDestination, split at "/": "/tv", "/tv/", "/media/tv" and
\* "/mnt/media/tv"
ShelfBases == {<<"", "tv">>, <<"", "tv", "">>, <<"", "media", "tv">>,
               <<"", "mnt", "media", "tv">>}

\* seriesFolder.replace(/\s*\(\d{4}\)$/, "")
StripYear(folder) == IF folder = FolderTmdb THEN FolderPlain ELSE folder

\* `${basePaths.tvshows}/${seriesFolder}/${seasonFolder}/${fileName}`
DestinationParts(base, folder, e) ==
  base \o <<folder, "Season 01",
            StripYear(folder) \o " - " \o EpisodeTag(e) \o ".mkv">>

\* generateDestinationPath under the base path: the provider's name and year,
\* else the canonical folder
generateDestinationParts(base, e, tmdb, series) ==
  DestinationParts(base,
                   IF tmdb THEN FolderTmdb ELSE getCanonicalSeriesFolder(series),
                   e)

\* destinationPath.split("/").filter(Boolean)
pathParts(d) == SelectSeq(d, LAMBDA part : part # "")

\* pathParts.length >= 2 ? pathParts[1] : null ("" for null; the index counts
\* from zero)
seriesFolderName(d) == IF Len(pathParts(d)) >= 2 THEN pathParts(d)[2] ELSE ""

\* createTvSeries with folderPath: seriesFolderName when the read found no
\* series, else updateTvSeries with series.folderPath || seriesFolderName
RegisterSeries(series, d) ==
  LET read == getTvSeriesByName(series)
  IN  IF read.id = 0
      THEN Append(series, [folderPath |-> seriesFolderName(d), totalEpisodes |-> 1])
      ELSE [series EXCEPT ![read.id] =
              [folderPath |-> IF read.folderPath # "" THEN read.folderPath
                              ELSE seriesFolderName(d),
               totalEpisodes |-> read.totalEpisodes + 1]]

\* the segment of a destination path directly after the base path
SeriesComponent(base, d) == d[Len(base) + 1]

NoShelf == [base |-> <<>>, items |-> <<>>, series |-> <<>>]

(***************************************************************************)
(* The series name a directory's file names agree on.  A file name is the  *)
(* sequence of tokens tokenizeFilename yields for it (extension dropped,   *)
(* split at the delimiters).                                               *)
(***************************************************************************)
\* most file names of one directory
MaxSiblings == 3

\* "Mirzapur.S01E01.720p.HDHub4u.mkv" and "Mirzapur HDHub4u S01E02.mkv"
ScenarioB1 == <<"Mirzapur", "S01E01", "720p", "HDHub4u">>

ScenarioB2 == <<"Mirzapur", "HDHub4u", "S01E02">>

\* the tokenized file names a directory may hold
SiblingNames ==
  {ScenarioB1, ScenarioB2,
   <<"HDHub4u", "Mirzapur", "S01E02">>,
   <<"The", "Boys", "S01E01">>, <<"the", "boys", "S01E02", "720p">>,
   <<"The", "Office", "S01E01">>,
   <<"3", "Body", "S01E01">>, <<"3", "S01E02">>,
   <<"Up", "S01E01">>, <<"up", "07">>,
   <<"S01E01">>}

\* token.toLowerCase()
toLowerCase(t) ==
  CASE t = "Mirzapur" -> "mirzapur"
    [] t = "HDHub4u" -> "hdhub4u"
    [] t = "The" -> "the"
    [] t = "Boys" -> "boys"
    [] t = "Office" -> "office"
    [] t = "Body" -> "body"
    [] t = "Up" -> "up"
    [] t \in {"S01E01", "S01E02"} -> IF t = "S01E01" THEN "s01e01" ELSE "s01e02"
    [] OTHER -> t

\* /^\d+$/.test(token)
isNumeric(t) == t \in {"3", "07"}

\* parseInt(token) of a numeric token
TokenValue(t) == IF t = "3" THEN 3 ELSE 7

\* /^s\d{1,2}e\d{1,3}$/i, /^s\d{1,2}$/i or /^\d{1,2}x\d{1,3}$/i matches
isEpisodeMarker(t) == toLowerCase(t) \in {"s01e01", "s01e02"}

\* QUALITY_TAGS.has(normalizeToken(token))
isQualityTag(t) == toLowerCase(t) \in {"720p"}

\* RELEASE_GROUPS.some(g => lower === g.toLowerCase())
isReleaseGroup(t) == toLowerCase(t) \in {"hdhub4u", "720p"}

\* t.charAt(0).toUpperCase() + t.slice(1).toLowerCase(), a numeric token as
\* it is
TitleToken(t) ==
  IF isNumeric(t) THEN t
  ELSE CASE toLowerCase(t) = "mirzapur" -> "Mirzapur"
         [] toLowerCase(t) = "hdhub4u" -> "Hdhub4u"
         [] toLowerCase(t) = "the" -> "The"
         [] toLowerCase(t) = "boys" -> "Boys"
         [] toLowerCase(t) = "office" -> "Office"
         [] toLowerCase(t) = "body" -> "Body"
         [] toLowerCase(t) = "up" -> "Up"
         [] OTHER -> t

\* extractSeriesTokens from token i on, result being the tokens kept so far
RECURSIVE SeriesTokensFrom(_, _, _, _)
SeriesTokensFrom(tokens, i, hasNonNumericToken, result) ==
  IF i > Len(tokens) THEN result
  ELSE LET token == tokens[i]
       IN  IF isEpisodeMarker(token) THEN result
           ELSE IF ~hasNonNumericToken /\ (isQualityTag(token) \/ isReleaseGroup(token))
           THEN SeriesTokensFrom(tokens, i + 1, hasNonNumericToken, result)
           ELSE IF hasNonNumericToken /\ isQualityTag(token) THEN result
           ELSE IF hasNonNumericToken /\ isReleaseGroup(token) THEN result
           ELSE IF isNumeric(token) /\ hasNonNumericToken /\ TokenValue(token) <= 50
           THEN result
           ELSE SeriesTokensFrom(tokens, i + 1,
                                 hasNonNumericToken \/ ~isNumeric(token),
                                 Append(result, token))

extractSeriesTokens(tokens) == SeriesTokensFrom(tokens, 1, FALSE, <<>>)

\* do the first n tokens of every array equal, ignoring case, those of the
\* first array
AllMatch(tokenArrays, n) ==
  \A j \in 1..Len(tokenArrays) :
    /\ n <= Len(tokenArrays[j])
    /\ \A i \in 1..n :
         toLowerCase(tokenArrays[j][i]) = toLowerCase(tokenArrays[1][i])

longestCommonPrefix(tokenArrays) ==
  IF Len(tokenArrays) = 0 THEN <<>>
  ELSE IF Len(tokenArrays) = 1 THEN tokenArrays[1]
  ELSE LET first == tokenArrays[1]
           n == CHOOSE n \in 0..Len(first) :
                  /\ AllMatch(tokenArrays, n)
                  /\ \A k \in (n + 1)..Len(first) : ~AllMatch(tokenArrays, k)
       IN  SubSeq(first, 1, n)

\* the tokens title-cased and joined by " "
RECURSIVE RenderName(_)
RenderName(prefix) ==
  IF prefix = <<>> THEN ""
  ELSE IF Len(prefix) = 1 THEN TitleToken(prefix[1])
  ELSE TitleToken(prefix[1]) \o " " \o RenderName(Tail(prefix))

\* the series token arrays of the file names, the empty ones dropped
SeriesTokenArrays(filenames) ==
  SelectSeq([k \in 1..Len(filenames) |-> extractSeriesTokens(filenames[k])],
            LAMBDA t : Len(t) > 0)

\* Math.ceil(n * 0.7)
MinOverlap(n) == (7 * n + 9) \div 10

\* the arrays that start with the prefix
MatchCount(tokenArrays, prefix) ==
  Cardinality({j \in 1..Len(tokenArrays) :
                 /\ Len(prefix) <= Len(tokenArrays[j])
                 /\ \A i \in 1..Len(prefix) :
                      toLowerCase(tokenArrays[j][i]) = toLowerCase(prefix[i])})

\* the consensus name, "" for null
findSeriesNameByConsensus(filenames) ==
  IF Len(filenames) < 2 THEN ""
  ELSE LET tokenArrays == SeriesTokenArrays(filenames)
           commonPrefix == longestCommonPrefix(tokenArrays)
           seriesName == RenderName(commonPrefix)
       IN  IF Len(tokenArrays) < 2 THEN ""
           ELSE IF Len(commonPrefix) < 2 THEN ""
           ELSE IF \A i \in 1..Len(commonPrefix) : isNumeric(commonPrefix[i]) THEN ""
           ELSE IF MatchCount(tokenArrays, commonPrefix) < MinOverlap(Len(tokenArrays))
           THEN ""
           ELSE IF Len(seriesName) < 3 THEN ""
           ELSE seriesName

NoConsensus == [filenames |-> <<>>, called |-> FALSE, seriesName |-> ""]

(***************************************************************************)
(* cleanFilename, server and client.  A file name is a sequence of         *)
(* characters; each replace is computed as the regular expression engine   *)
(* does it: matches are taken left to right and do not overlap.            *)
(***************************************************************************)
\* most pieces a file name is put together from
MaxPieces == 4

\* the pieces of the file names: delimiters, brackets, a line feed, a release
\* group in both cases, a letter, a year, a number, the letter that keeps a
\* number, an extension
NamePieces ==
  {<<".">>, <<" ">>, <<"[">>, <<"]">>, <<"(">>, <<")">>, <<"\n">>,
   <<"h", "d">>, <<"H", "D">>, <<"a">>, <<"2", "0", "2", "0">>, <<"1", "2">>,
   <<"e">>, <<".", "m", "k", "v">>}

RECURSIVE Concat(_)
Concat(pieces) == IF pieces = <<>> THEN <<>> ELSE Head(pieces) \o Concat(Tail(pieces))

\* the file names: every sequence of up to MaxPieces pieces
FileNames ==
  {Concat(ps) : ps \in UNION {[1..n -> NamePieces] : n \in 1..MaxPieces}}

\* \d
DigitChars == {"0", "1", "2", "3", "4", "5", "6", "7", "8", "9"}

\* the letters that occur in the file names
LetterChars == {"a", "d", "e", "h", "k", "m", "v", "D", "H"}

\* \w, and [a-zA-Z0-9] as no name holds an underscore after the second step
WordChars == DigitChars \cup LetterChars

\* \s
SpaceChars == {" ", "\n"}

\* the characters "." does not match
LineTerminators == {"\n"}

\* the lower case of a character (flag i)
LowerChar(c) == IF c = "D" THEN "d" ELSE IF c = "H" THEN "h" ELSE c

\* RELEASE_GROUPS, the one entry the names can hold
ModelGroups == <<<<"h", "d">>>>

\* \b between positions i - 1 and i of s
WordBoundary(s, i) ==
  ((i > 1 /\ s[i - 1] \in WordChars) # (i <= Len(s) /\ s[i] \in WordChars))

\* filename.match(/\.[a-zA-Z0-9]{2,4}$/) and the slice
StripExtension(s) ==
  IF \E k \in 2..4 :
       /\ Len(s) > k
       /\ s[Len(s) - k] = "."
       /\ \A i \in (Len(s) - k + 1)..Len(s) : s[i] \in WordChars
  THEN LET k == CHOOSE k \in 2..4 :
                  /\ Len(s) > k
                  /\ s[Len(s) - k] = "."
                  /\ \A i \in (Len(s) - k + 1)..Len(s) : s[i] \in WordChars
       IN  SubSeq(s, 1, Len(s) - k - 1)
  ELSE s

\* cleaned.replace(/[._]/g, " ")
ReplaceDelimiters(s) ==
  [i \in 1..Len(s) |-> IF s[i] \in {".", "_"} THEN " " ELSE s[i]]

\* the first position from i on that holds the character c, 0 when none does
FirstAt(s, i, c) ==
  IF \E j \in i..Len(s) : s[j] = c
  THEN CHOOSE j \in i..Len(s) : s[j] = c /\ \A k \in i..(j - 1) : s[k] # c
  ELSE 0

\* cleaned.replace(/\[.*?\]/g, " ") from position i on
RECURSIVE RemoveBrackets(_, _)
RemoveBrackets(s, i) ==
  IF i > Len(s) THEN <<>>
  ELSE LET j == FirstAt(s, i + 1, "]")
       IN  IF /\ s[i] = "["
              /\ j # 0
              /\ \A k \in (i + 1)..(j - 1) : s[k] \notin LineTerminators
           THEN <<" ">> \o RemoveBrackets(s, j + 1)
           ELSE <<s[i]>> \o RemoveBrackets(s, i + 1)

\* (?:19|20)\d{2}\) matches at position i
YearParenAt(s, i) ==
  /\ i + 4 <= Len(s)
  /\ <<s[i], s[i + 1]>> \in {<<"1", "9">>, <<"2", "0">>}
  /\ s[i + 2] \in DigitChars
  /\ s[i + 3] \in DigitChars
  /\ s[i + 4] = ")"

\* cleaned.replace(/\((?!(?:19|20)\d{2}\))[^)]*\)/g, " ") from position i on
RECURSIVE RemoveParens(_, _)
RemoveParens(s, i) ==
  IF i > Len(s) THEN <<>>
  ELSE LET j == FirstAt(s, i + 1, ")")
       IN  IF s[i] = "(" /\ ~YearParenAt(s, i + 1) /\ j # 0
           THEN <<" ">> \o RemoveParens(s, j + 1)
           ELSE <<s[i]>> \o RemoveParens(s, i + 1)

\* new RegExp(`\\b${group}\\b`, "gi") matches at position i
GroupAt(s, i, group) ==
  /\ i + Len(group) - 1 <= Len(s)
  /\ \A k \in 1..Len(group) : LowerChar(s[i + k - 1]) = group[k]
  /\ WordBoundary(s, i)
  /\ WordBoundary(s, i + Len(group))

\* cleaned.replace(regex, " ") for one group, from position i on
RECURSIVE RemoveGroup(_, _, _)
RemoveGroup(s, i, group) ==
  IF i > Len(s) THEN <<>>
  ELSE IF GroupAt(s, i, group)
       THEN <<" ">> \o RemoveGroup(s, i + Len(group), group)
       ELSE <<s[i]>> \o RemoveGroup(s, i + 1, group)

\* for (const group of RELEASE_GROUPS), from the g-th group on
RECURSIVE RemoveGroups(_, _)
RemoveGroups(s, g) ==
  IF g > Len(ModelGroups) THEN s
  ELSE RemoveGroups(RemoveGroup(s, 1, ModelGroups[g]), g + 1)

\* the number of digits from position i on
RECURSIVE DigitCount(_, _)
DigitCount(s, i) ==
  IF i <= Len(s) /\ s[i] \in DigitChars THEN 1 + DigitCount(s, i + 1) ELSE 0

\* the first position from i on that holds no white space
RECURSIVE SkipSpace(_, _)
SkipSpace(s, i) ==
  IF i <= Len(s) /\ s[i] \in SpaceChars THEN SkipSpace(s, i + 1) ELSE i

\* \s*(?:x|e|episode|season|s\d) matches at position i, ignoring case
KeepsNumberAt(s, i) ==
  LET j == SkipSpace(s, i)
  IN  /\ j <= Len(s)
      /\ \/ LowerChar(s[j]) \in {"x", "e"}
         \/ LowerChar(s[j]) = "s" /\ j < Len(s) /\ s[j + 1] \in DigitChars
         \/ /\ j + 5 <= Len(s)
            /\ [k \in 1..6 |-> LowerChar(s[j + k - 1])]
                 = <<"s", "e", "a", "s", "o", "n">>

\* /\b\d{1,3}\b(?!\s*(?:x|e|episode|season|s\d))/gi matches at position i
NumberAt(s, i) ==
  LET n == DigitCount(s, i)
  IN  /\ n \in 1..3
      /\ WordBoundary(s, i)
      /\ WordBoundary(s, i + n)
      /\ ~KeepsNumberAt(s, i + n)

\* the client's removal of standalone numbers, from position i on
RECURSIVE RemoveNumbers(_, _)
RemoveNumbers(s, i) ==
  IF i > Len(s) THEN <<>>
  ELSE IF NumberAt(s, i)
       THEN <<" ">> \o RemoveNumbers(s, i + DigitCount(s, i))
       ELSE <<s[i]>> \o RemoveNumbers(s, i + 1)

\* cleaned.replace(/\s+/g, " ") from position i on
RECURSIVE CollapseSpace(_, _)
CollapseSpace(s, i) ==
  IF i > Len(s) THEN <<>>
  ELSE IF s[i] \in SpaceChars
       THEN <<" ">> \o CollapseSpace(s, SkipSpace(s, i))
       ELSE <<s[i]>> \o CollapseSpace(s, i + 1)

\* .trim() of a string whose white space is collapsed
Trim(s) ==
  LET a == IF s # <<>> /\ Head(s) = " " THEN Tail(s) ELSE s
  IN  IF a # <<>> /\ a[Len(a)] = " " THEN SubSeq(a, 1, Len(a) - 1) ELSE a

\* cleanFilename of the server (client FALSE) and of the client (TRUE)
cleanFilename(filename, client) ==
  LET stripped == StripExtension(filename)
      spaced == ReplaceDelimiters(stripped)
      unbracketed == RemoveParens(RemoveBrackets(spaced, 1), 1)
      ungrouped == RemoveGroups(unbracketed, 1)
      unnumbered == IF client THEN RemoveNumbers(ungrouped, 1) ELSE ungrouped
  IN  Trim(CollapseSpace(unnumbered, 1))

NoCleaned == [filename |-> <<>>, client |-> FALSE, calls |-> 0,
              once |-> <<>>, twice |-> <<>>]

(***************************************************************************)
(* State.                                                                  *)
(***************************************************************************)
VARIABLES
  fs,            \* the filesystem
  mv,            \* the moveFileToDestination call in flight (stepwise)
  before,        \* the filesystem when that call was made
  settings,      \* the stored settings
  mediaItems,    \* the catalogue: MediaItem records, the id is the index
  scanJobs,      \* ScanJob records
  organizeJobs,  \* OrganizeJob records
  scanReq,       \* POST /api/scan-folder requests and their background scans
  orgReq,        \* POST /api/organize-jobs requests and their background runs
  direct,        \* the POST /api/organize request
  issued,        \* requests received so far
  tvSeries,      \* TvSeries records
  tmdbCache,     \* the metadata result for the series is cached
  tree,          \* the directories on disk and which of them hold a file
  cl,            \* the cleanupEmptyFolders call in flight
  dup,           \* the last findDuplicates call and the groups it returned
  parsed,        \* a file name and what parseMediaFilename returned for it
  shelf,         \* a TV base path, the destinations built under it, its series
  consensus,     \* a directory's file names and the consensus series name
  cleaned        \* a file name and what cleanFilename returned for it

moveVars == <<mv, before>>

storeVars == <<settings, mediaItems, scanJobs, organizeJobs>>

runVars == <<scanReq, orgReq, direct, issued>>

libVars == <<tvSeries, tmdbCache>>

cleanVars == <<tree, cl>>

pureVars == <<dup, parsed>>

textVars == <<shelf, consensus, cleaned>>

vars == <<fs, mv, before, settings, mediaItems, scanJobs, organizeJobs,
          scanReq, orgReq, direct, issued, tvSeries, tmdbCache, tree, cl, dup, parsed,
          shelf, consensus, cleaned>>

Requests == 1..MaxRequests

IdleScan == [pc |-> "idle", job |-> 0, files |-> <<>>, pos |-> 1,
             totalFiles |-> 0, processedFiles |-> 0, newItems |-> 0]

IdleOrganize == [pc |-> "idle", job |-> 0, ids |-> <<>>, pos |-> 1,
                 successCount |-> 0, failedCount |-> 0,
                 item |-> NoItem, moved |-> FALSE, series |-> NoSeries,
                 dryRun |-> FALSE]

\* the storage as the constructor leaves it, with stored settings
InitStore ==
  /\ settings \in Configurations
  /\ mediaItems = <<>>
  /\ scanJobs = <<>>
  /\ organizeJobs = <<>>
  /\ scanReq = [r \in Requests |-> IdleScan]
  /\ orgReq = [q \in Requests |-> IdleOrganize]
  /\ direct = IdleOrganize
  /\ issued = 0

(***************************************************************************)
(* The file mover alone: calls on every filesystem, step by step.          *)
(***************************************************************************)
InitMove ==
  /\ fs \in FileSystems
  /\ mv = NoCall
  /\ before = fs
  /\ InitStore
  /\ settings.folders = {"/in"} /\ HasDestination(settings)
  /\ tvSeries = <<>>
  /\ tmdbCache = FALSE
  /\ tree = NoTree
  /\ cl = NoCleanup
  /\ dup = NoDuplicates
  /\ shelf = NoShelf
  /\ consensus = NoConsensus
  /\ cleaned = NoCleaned
  /\ parsed = NoParse

MoveCall ==
  /\ mv.pc = "idle"
  /\ \E s \in Paths, d \in Paths : mv' = EnterMove(s, d)
  /\ before' = fs
  /\ fs' = fs
  /\ UNCHANGED <<textVars, cleanVars, pureVars, libVars, storeVars, runVars>>

MoveTakeStep(label) ==
  /\ mv.pc = label
  /\ \E n \in MoveStep(mv, fs) : mv' = n.c /\ fs' = n.f
  /\ before' = before
  /\ UNCHANGED <<textVars, cleanVars, pureVars, libVars, storeVars, runVars>>

MoveAccessSource == MoveTakeStep("access_source")

MoveMakeDestDir == MoveTakeStep("mkdir")

MoveAccessDest == MoveTakeStep("access_dest")

MoveRename == MoveTakeStep("rename")

MoveStatSource == MoveTakeStep("stat_source")

MoveCopyFile == MoveTakeStep("copy")

MoveStatDest == MoveTakeStep("stat_dest")

MoveUnlinkDest == MoveTakeStep("unlink_dest")

MoveUnlinkSource == MoveTakeStep("unlink_source")

MoveFinalAccess == MoveTakeStep("final_access")

NextMove ==
  \/ MoveCall
  \/ MoveAccessSource
  \/ MoveMakeDestDir
  \/ MoveAccessDest
  \/ MoveRename
  \/ MoveStatSource
  \/ MoveCopyFile
  \/ MoveStatDest
  \/ MoveUnlinkDest
  \/ MoveUnlinkSource
  \/ MoveFinalAccess

SpecMove == InitMove /\ [][NextMove]_vars

(***************************************************************************)
(* The job store: createScanJob / createOrganizeJob append a record,        *)
(* updateScanJob / updateOrganizeJob merge the given fields into it.        *)
(***************************************************************************)
updateJob(jobs, j, updates) == [jobs EXCEPT ![j] = updates @@ @]

(***************************************************************************)
(* POST /api/scan-folder and runBackgroundScan.                            *)
(***************************************************************************)
\* the order in which the directory walk meets the files
WalkOrder == <<InE1b, InE1, InE2, TvE1, TvE2, TvE1y, TvE2y>>

InFolders(folders, f, p) == Exists(f, p) /\ RootOf(p) \in folders

\* findVideoFilesAsync over every configured folder
findVideoFilesAsync(folders, f) ==
  SelectSeq(WalkOrder, LAMBDA p : InFolders(folders, f, p))

ScanStatusNeverDuplicate(p, d, f) ==
  IF Exists(f, NormalizePath(d)) /\ NormalizePath(p) = NormalizePath(d)
  THEN "organized" ELSE "pending"

ScanStatusAnyExisting(p, d, f) ==
  IF Exists(f, NormalizePath(d)) THEN "organized" ELSE "pending"

\* the status a newly found file p with destination d is catalogued with
ScanStatus(p, d, f) ==
  IF Exists(f, NormalizePath(d))
  THEN IF NormalizePath(p) = NormalizePath(d) THEN "organized" ELSE "duplicate"
  ELSE "pending"

\* the record the scan stores for the file: an organized item is stored
\* under its destination path
ScannedItem(p, d, st) ==
  IF st = "organized" THEN [NewItem(p, d, st) EXCEPT !.originalPath = d]
  ELSE NewItem(p, d, st)

\* the file at position pos ends its batch: the last of its directory group
\* or the BATCH_SIZE-th of it
EndsBatch(files, pos) ==
  \/ pos = Len(files)
  \/ DirOf(files[pos + 1]) # DirOf(files[pos])
  \/ Cardinality({k \in 1..pos : DirOf(files[k]) = DirOf(files[pos])})
       % BATCH_SIZE = 0

\* the request is received: the active-job check and the settings
ScanFolderCheck(r) ==
  /\ scanReq[r].pc = "idle"
  /\ \A k \in 1..(r - 1) : scanReq[k].pc # "idle"
  /\ issued < MaxRequests
  /\ issued' = issued + 1
  /\ scanReq' = [scanReq EXCEPT ![r].pc =
       IF ActiveJobs(scanJobs) # {} \/ settings.folders = {}
       THEN "done" ELSE "create"]
  /\ UNCHANGED <<textVars, cleanVars, pureVars, libVars, fs, moveVars, storeVars, orgReq, direct>>

\* createScanJob, then the destination check and setImmediate
ScanFolderCreate(r) ==
  /\ scanReq[r].pc = "create"
  /\ scanJobs' = Append(scanJobs, [status |-> "pending", totalFiles |-> 0,
                                   processedFiles |-> 0, newItems |-> 0])
  /\ scanReq' = [scanReq EXCEPT
       ![r].job = Len(scanJobs) + 1,
       ![r].pc = IF HasDestination(settings) THEN "start" ELSE "done"]
  /\ UNCHANGED <<textVars, cleanVars, pureVars, libVars, fs, moveVars, settings, mediaItems, organizeJobs,
                 orgReq, direct, issued>>

\* runBackgroundScan begins: status running
ScanStart(r) ==
  /\ scanReq[r].pc = "start"
  /\ scanJobs' = updateJob(scanJobs, scanReq[r].job, [status |-> "running"])
  /\ scanReq' = [scanReq EXCEPT ![r].pc = "enumerate"]
  /\ UNCHANGED <<textVars, cleanVars, pureVars, libVars, fs, moveVars, settings, mediaItems, organizeJobs,
                 orgReq, direct, issued>>

\* the first pass: collect the files and store totalFiles
ScanEnumerate(r) ==
  /\ scanReq[r].pc = "enumerate"
  /\ LET files == findVideoFilesAsync(settings.folders, fs)
     IN  /\ scanJobs' = updateJob(scanJobs, scanReq[r].job,
                                  [totalFiles |-> Len(files)])
         /\ scanReq' = [scanReq EXCEPT
              ![r].files = files, ![r].totalFiles = Len(files), ![r].pos = 1,
              ![r].pc = IF Len(files) = 0 THEN "complete" ELSE "file"]
  /\ UNCHANGED <<textVars, cleanVars, pureVars, libVars, fs, moveVars, settings, mediaItems, organizeJobs,
                 orgReq, direct, issued>>

\* one file of the batch: skipped when catalogued by path, else catalogued
ScanFile(r) ==
  /\ scanReq[r].pc = "file"
  /\ LET me == scanReq[r]
         p == me.files[me.pos]
         known == getMediaItemByPath(mediaItems, p)
     IN  /\ known \/ Len(mediaItems) < MaxItems
         /\ \E tmdb \in (IF known THEN {FALSE} ELSE TmdbOutcomes(settings, tmdbCache)) :
              LET d == generateDestinationPath(p, settings.tvShowsDestination,
                                               tmdb, tvSeries)
                  st == ScanStatus(p, d, fs)
              IN  /\ mediaItems' =
                       IF known THEN mediaItems
                       ELSE Append(mediaItems, ScannedItem(p, d, st))
                  /\ tvSeries' =
                       IF ~known /\ st = "organized"
                       THEN WriteSeries(tvSeries, getTvSeriesByName(tvSeries), d)
                       ELSE tvSeries
                  /\ tmdbCache' = (tmdbCache \/ tmdb)
         /\ scanReq' = [scanReq EXCEPT
              ![r].processedFiles = @ + 1,
              ![r].newItems = IF known THEN @ ELSE @ + 1,
              ![r].pos = @ + 1,
              ![r].pc = IF EndsBatch(me.files, me.pos) THEN "progress" ELSE "file"]
  /\ UNCHANGED <<textVars, cleanVars, pureVars, fs, moveVars, settings, scanJobs, organizeJobs,
                 orgReq, direct, issued>>

\* the progress update after each batch
ScanProgress(r) ==
  /\ scanReq[r].pc = "progress"
  /\ scanJobs' = updateJob(scanJobs, scanReq[r].job,
       [processedFiles |-> scanReq[r].processedFiles,
        newItems |-> scanReq[r].newItems])
  /\ scanReq' = [scanReq EXCEPT ![r].pc =
       IF scanReq[r].pos > Len(scanReq[r].files) THEN "complete" ELSE "file"]
  /\ UNCHANGED <<textVars, cleanVars, pureVars, libVars, fs, moveVars, settings, mediaItems, organizeJobs,
                 orgReq, direct, issued>>

\* the final update: completed
ScanComplete(r) ==
  /\ scanReq[r].pc = "complete"
  /\ scanJobs' = updateJob(scanJobs, scanReq[r].job,
       [status |-> "completed", processedFiles |-> scanReq[r].totalFiles,
        newItems |-> scanReq[r].newItems])
  /\ scanReq' = [scanReq EXCEPT ![r].pc = "log"]
  /\ UNCHANGED <<textVars, cleanVars, pureVars, libVars, fs, moveVars, settings, mediaItems, organizeJobs,
                 orgReq, direct, issued>>

\* createLog after the final update returns
ScanLog(r) ==
  /\ scanReq[r].pc = "log"
  /\ scanReq' = [scanReq EXCEPT ![r].pc = "done"]
  /\ UNCHANGED <<textVars, cleanVars, pureVars, libVars, fs, moveVars, storeVars, orgReq, direct, issued>>

\* createLog after the final update throws: the catch block marks the job failed
ScanLogThrows(r) ==
  /\ scanReq[r].pc = "log"
  /\ scanJobs' = updateJob(scanJobs, scanReq[r].job, [status |-> "failed"])
  /\ scanReq' = [scanReq EXCEPT ![r].pc = "done"]
  /\ UNCHANGED <<textVars, cleanVars, pureVars, libVars, fs, moveVars, settings, mediaItems, organizeJobs,
                 orgReq, direct, issued>>

\* a storage call of the file loop throws: the catch block marks the job failed
ScanThrow(r) ==
  /\ scanReq[r].pc = "file"
  /\ scanJobs' = updateJob(scanJobs, scanReq[r].job, [status |-> "failed"])
  /\ scanReq' = [scanReq EXCEPT ![r].pc = "done"]
  /\ UNCHANGED <<textVars, cleanVars, pureVars, libVars, fs, moveVars, settings, mediaItems, organizeJobs,
                 orgReq, direct, issued>>

\* POST /api/scan: the named files are catalogued as pending, unseen
ApiScan ==
  /\ issued < MaxRequests
  /\ issued' = issued + 1
  /\ \E names \in UNION {[1..n -> SourcePaths] : n \in 1..MaxItems} :
       /\ Len(mediaItems) + Len(names) <= MaxItems
       /\ mediaItems' = mediaItems \o
            [k \in 1..Len(names) |->
               NewItem(names[k],
                       generateDestinationPath(names[k], "/tv", FALSE, tvSeries),
                       "pending")]
  /\ UNCHANGED <<textVars, cleanVars, pureVars, libVars, fs, moveVars, settings, scanJobs, organizeJobs,
                 scanReq, orgReq, direct>>

(***************************************************************************)
(* Organizing: POST /api/organize-jobs and POST /api/organize.             *)
(***************************************************************************)
IdLists == UNION {[1..n -> 1..MaxItems] : n \in 1..MaxBatch}

Min(a, b) == IF a < b THEN a ELSE b

\* Array.prototype.indexOf, from 0
IndexOf(seq, x) == (CHOOSE i \in 1..Len(seq) :
                      seq[i] = x /\ \A k \in 1..(i - 1) : seq[k] # x) - 1

\* chunkStart + chunk.indexOf(id) + 1 for the id at position pos
ProcessedFilesAt(ids, pos) ==
  LET chunkStart == ((pos - 1) \div CHUNK_SIZE) * CHUNK_SIZE
      chunk == SubSeq(ids, chunkStart + 1, Min(chunkStart + CHUNK_SIZE, Len(ids)))
  IN  chunkStart + IndexOf(chunk, ids[pos]) + 1

RecordMoveAlways(items, id, item, moved) ==
  updateMediaItem(items, id, "organized", item.destinationPath)

\* after the move: the item is marked organized, at its destination, only
\* when moveFileToDestination returned success
RecordMove(items, id, item, moved) ==
  IF moved THEN updateMediaItem(items, id, "organized", item.destinationPath)
  ELSE items

AfterItem(run) == IF run.pos + 1 > Len(run.ids) THEN "complete" ELSE "fetch"

\* the request is received: the active-job check and the settings
OrgJobCheck(q) ==
  /\ orgReq[q].pc = "idle"
  /\ \A k \in 1..(q - 1) : orgReq[k].pc # "idle"
  /\ issued < MaxRequests
  /\ issued' = issued + 1
  /\ \E ids \in IdLists :
       orgReq' = [orgReq EXCEPT
         ![q].ids = ids,
         ![q].pc = IF ActiveJobs(organizeJobs) # {} \/ ~HasDestination(settings)
                   THEN "done" ELSE "create"]
  /\ UNCHANGED <<textVars, cleanVars, pureVars, libVars, fs, moveVars, storeVars, scanReq, direct>>

\* createOrganizeJob (status running); the background run starts
OrgJobCreate(q) ==
  /\ orgReq[q].pc = "create"
  /\ organizeJobs' = Append(organizeJobs,
       [status |-> "running", totalFiles |-> Len(orgReq[q].ids),
        processedFiles |-> 0, successCount |-> 0, failedCount |-> 0])
  /\ orgReq' = [orgReq EXCEPT ![q].job = Len(organizeJobs) + 1, ![q].pc = "fetch"]
  /\ UNCHANGED <<textVars, cleanVars, pureVars, libVars, fs, moveVars, settings, mediaItems, scanJobs,
                 scanReq, direct, issued>>

\* getMediaItemById for the next id; a missing item counts as failed
OrgJobFetch(q) ==
  /\ orgReq[q].pc = "fetch"
  /\ LET me == orgReq[q]
         item == getMediaItemById(mediaItems, me.ids[me.pos])
     IN  IF item = NoItem
         THEN /\ organizeJobs' = updateJob(organizeJobs, me.job,
                   [processedFiles |-> ProcessedFilesAt(me.ids, me.pos),
                    successCount |-> me.successCount,
                    failedCount |-> me.failedCount + 1])
              /\ orgReq' = [orgReq EXCEPT ![q].failedCount = @ + 1,
                              ![q].pos = @ + 1, ![q].pc = AfterItem(me)]
         ELSE /\ orgReq' = [orgReq EXCEPT ![q].item = item, ![q].pc = "move"]
              /\ UNCHANGED organizeJobs
  /\ UNCHANGED <<textVars, cleanVars, pureVars, libVars, fs, moveVars, settings, mediaItems, scanJobs,
                 scanReq, direct, issued>>

\* await moveFileToDestination(item.originalPath, item.destinationPath)
OrgJobMove(q) ==
  /\ orgReq[q].pc = "move"
  /\ \E n \in moveFileToDestination(NormalizePath(orgReq[q].item.originalPath),
                                    NormalizePath(orgReq[q].item.destinationPath),
                                    fs) :
       /\ fs' = n.f
       /\ orgReq' = [orgReq EXCEPT ![q].moved = n.c.success, ![q].pc = "record"]
  /\ UNCHANGED <<textVars, cleanVars, pureVars, libVars, moveVars, storeVars, scanReq, direct, issued>>

\* after the move.  On success the item is updated and the series record is
\* read; on failure the failure is counted and the progress stored
OrgJobRecord(q) ==
  /\ orgReq[q].pc = "record"
  /\ LET me == orgReq[q]
     IN  /\ mediaItems' = RecordMove(mediaItems, me.ids[me.pos], me.item, me.moved)
         /\ IF me.moved
            THEN /\ orgReq' = [orgReq EXCEPT
                      ![q].series = getTvSeriesByName(tvSeries), ![q].pc = "series"]
                 /\ UNCHANGED organizeJobs
            ELSE /\ organizeJobs' = updateJob(organizeJobs, me.job,
                      [processedFiles |-> ProcessedFilesAt(me.ids, me.pos),
                       successCount |-> me.successCount,
                       failedCount |-> me.failedCount + 1])
                 /\ orgReq' = [orgReq EXCEPT ![q].failedCount = @ + 1,
                      ![q].pos = @ + 1, ![q].pc = AfterItem(me)]
  /\ UNCHANGED <<textVars, cleanVars, pureVars, libVars, fs, moveVars, settings, scanJobs, scanReq, direct, issued>>

\* the series record is created or updated from what was read, the success
\* is counted and the progress stored
OrgJobSeries(q) ==
  /\ orgReq[q].pc = "series"
  /\ LET me == orgReq[q]
     IN  /\ tvSeries' = WriteSeries(tvSeries, me.series, me.item.destinationPath)
         /\ organizeJobs' = updateJob(organizeJobs, me.job,
              [processedFiles |-> ProcessedFilesAt(me.ids, me.pos),
               successCount |-> me.successCount + 1,
               failedCount |-> me.failedCount])
         /\ orgReq' = [orgReq EXCEPT ![q].successCount = @ + 1,
              ![q].pos = @ + 1, ![q].pc = AfterItem(me)]
  /\ UNCHANGED <<textVars, cleanVars, pureVars, tmdbCache, fs, moveVars, settings, mediaItems, scanJobs,
                 scanReq, direct, issued>>

\* the final update: completed
OrgJobComplete(q) ==
  /\ orgReq[q].pc = "complete"
  /\ organizeJobs' = updateJob(organizeJobs, orgReq[q].job,
       [status |-> "completed", processedFiles |-> Len(orgReq[q].ids),
        successCount |-> orgReq[q].successCount,
        failedCount |-> orgReq[q].failedCount])
  /\ orgReq' = [orgReq EXCEPT ![q].pc = "done"]
  /\ UNCHANGED <<textVars, cleanVars, pureVars, libVars, fs, moveVars, settings, mediaItems, scanJobs,
                 scanReq, direct, issued>>

\* a storage call of the loop throws: the catch block marks the job failed
OrgJobThrow(q) ==
  /\ orgReq[q].pc = "fetch"
  /\ organizeJobs' = updateJob(organizeJobs, orgReq[q].job, [status |-> "failed"])
  /\ orgReq' = [orgReq EXCEPT ![q].pc = "done"]
  /\ UNCHANGED <<textVars, cleanVars, pureVars, libVars, fs, moveVars, settings, mediaItems, scanJobs,
                 scanReq, direct, issued>>

\* POST /api/organize is received: the destination check, no job check
OrganizeStart ==
  /\ direct.pc = "idle"
  /\ issued < MaxRequests
  /\ issued' = issued + 1
  /\ \E ids \in IdLists, dryRun \in BOOLEAN :
       direct' = [direct EXCEPT
         !.ids = ids, !.dryRun = dryRun,
         !.pc = IF HasDestination(settings) THEN "fetch" ELSE "done"]
  /\ UNCHANGED <<textVars, cleanVars, pureVars, libVars, fs, moveVars, storeVars, scanReq, orgReq>>

AfterFetchMove(run) == "move"

\* if (dryRun) { verify; continue } comes before the move
AfterFetch(run) == IF run.dryRun THEN "verify" ELSE "move"

\* getMediaItemById for the next id; a missing item is passed over
OrganizeFetch ==
  /\ direct.pc = "fetch"
  /\ LET item == getMediaItemById(mediaItems, direct.ids[direct.pos])
     IN  direct' = IF item = NoItem
                   THEN [direct EXCEPT !.pos = @ + 1, !.pc = AfterItem(direct)]
                   ELSE [direct EXCEPT !.item = item, !.pc = AfterFetch(direct)]
  /\ UNCHANGED <<textVars, cleanVars, pureVars, libVars, fs, moveVars, storeVars, scanReq, orgReq, issued>>

\* the outcomes of the dry-run checks of an item: the source must be
\* readable, and the destination directory must take a scratch file
DryRunOutcomes(item, f) ==
  IF Exists(f, NormalizePath(item.originalPath)) THEN {"verified", "failed"}
  ELSE {"failed"}

\* dry run: access(source), mkdir and a scratch write in the destination
\* directory; one outcome for the item, no move
OrganizeVerify ==
  /\ direct.pc = "verify"
  /\ \E outcome \in DryRunOutcomes(direct.item, fs) :
       direct' = IF outcome = "verified"
                 THEN [direct EXCEPT !.successCount = @ + 1,
                                     !.pos = @ + 1, !.pc = AfterItem(direct)]
                 ELSE [direct EXCEPT !.failedCount = @ + 1,
                                     !.pos = @ + 1, !.pc = AfterItem(direct)]
  /\ UNCHANGED <<textVars, cleanVars, pureVars, libVars, fs, moveVars, storeVars, scanReq, orgReq, issued>>

OrganizeMove ==
  /\ direct.pc = "move"
  /\ \E n \in moveFileToDestination(NormalizePath(direct.item.originalPath),
                                    NormalizePath(direct.item.destinationPath),
                                    fs) :
       /\ fs' = n.f
       /\ direct' = [direct EXCEPT !.moved = n.c.success, !.pc = "record"]
  /\ UNCHANGED <<textVars, cleanVars, pureVars, libVars, moveVars, storeVars, scanReq, orgReq, issued>>

\* organized.push(id) with the item updated, or failed.push({id, error})
OrganizeRecord ==
  /\ direct.pc = "record"
  /\ mediaItems' = RecordMove(mediaItems, direct.ids[direct.pos],
                              direct.item, direct.moved)
  /\ direct' = IF direct.moved
               THEN [direct EXCEPT !.series = getTvSeriesByName(tvSeries),
                                   !.pc = "series"]
               ELSE [direct EXCEPT !.failedCount = @ + 1,
                                   !.pos = @ + 1, !.pc = AfterItem(direct)]
  /\ UNCHANGED <<textVars, cleanVars, pureVars, libVars, fs, moveVars, settings, scanJobs, organizeJobs,
                 scanReq, orgReq, issued>>

\* the series record is created or updated from what was read;
\* organized.push(id)
OrganizeSeries ==
  /\ direct.pc = "series"
  /\ tvSeries' = WriteSeries(tvSeries, direct.series, direct.item.destinationPath)
  /\ direct' = [direct EXCEPT !.successCount = @ + 1,
                              !.pos = @ + 1, !.pc = AfterItem(direct)]
  /\ UNCHANGED <<textVars, cleanVars, pureVars, tmdbCache, fs, moveVars, storeVars, scanReq, orgReq, issued>>

\* res.json({organized, failed, errors})
OrganizeRespond ==
  /\ direct.pc = "complete"
  /\ direct' = [direct EXCEPT !.pc = "done"]
  /\ UNCHANGED <<textVars, cleanVars, pureVars, libVars, fs, moveVars, storeVars, scanReq, orgReq, issued>>

(***************************************************************************)
(* POST /api/media-items/refresh-status and POST /api/duplicates/scan.     *)
(***************************************************************************)
\* a pending item whose source is gone: organized when its destination
\* exists, removed when it does not
RefreshItem(item, f) ==
  IF item.deleted \/ item.status # "pending"
       \/ Exists(f, NormalizePath(item.originalPath))
  THEN item
  ELSE IF Exists(f, NormalizePath(item.destinationPath))
       THEN [item EXCEPT !.status = "organized",
                         !.originalPath = item.destinationPath]
       ELSE [item EXCEPT !.deleted = TRUE]

RefreshStatus ==
  /\ issued < MaxRequests
  /\ issued' = issued + 1
  /\ mediaItems' = [i \in 1..Len(mediaItems) |-> RefreshItem(mediaItems[i], fs)]
  /\ UNCHANGED <<textVars, cleanVars, pureVars, libVars, fs, moveVars, settings, scanJobs, organizeJobs,
                 scanReq, orgReq, direct>>

\* settings.fuzzyMatchThreshold || "80"
FuzzyMatchThreshold == 80

\* the file names findDuplicates is run on: the three downloads, the bare
\* series name, a near miss of it, and a name that cleans to the empty
\* string; and the thresholds (settings.fuzzyMatchThreshold) it is run with
DuplicateNames == {InE1, InE1b, InE2, "/in/Show.mkv", "/in/Snow.mkv", "/in/[x].mkv"}

Thresholds == {40, 75, FuzzyMatchThreshold, 100, 101}

\* normalizeForComparison of the file names of the model, as characters
NormalizedName(p) ==
  CASE p = "/in/Show.mkv" -> <<"s", "h", "o", "w">>
    [] p = "/in/Snow.mkv" -> <<"s", "n", "o", "w">>
    [] p = "/in/[x].mkv" -> <<>>
    [] OTHER -> <<"s", "h", "o", "w", "s", "0", "1", "e", "0">>
                  \o (IF EpisodeOf(p) = 1 THEN <<"1">> ELSE <<"2">>)

\* String.prototype.includes
Includes(s, t) ==
  \E k \in 0..(Len(s) - Len(t)) : SubSeq(s, k + 1, k + Len(t)) = t

\* row i of the edit-distance matrix from row i - 1 (column j is entry j + 1);
\* the tests on Len, always true, make each entry be computed before the next
RECURSIVE LevRow(_, _, _, _, _)
LevRow(prev, ch, s2, j, row) ==
  IF j > Len(s2) THEN row
  ELSE LET cost == IF ch = s2[j] THEN 0 ELSE 1
           next == Append(row, Min(Min(prev[j + 1] + 1, row[j] + 1), prev[j] + cost))
       IN  IF Len(next) = j + 1 THEN LevRow(prev, ch, s2, j + 1, next) ELSE next

\* matrix[s1.length][s2.length]
RECURSIVE Distance(_, _, _, _)
Distance(s1, s2, i, prev) ==
  IF i > Len(s1) THEN prev[Len(s2) + 1]
  ELSE LET row == LevRow(prev, s1[i], s2, 1, <<i>>)
       IN  IF Len(row) = Len(s2) + 1 THEN Distance(s1, s2, i + 1, row) ELSE 0

\* Math.round((n / d) * 100)
RoundPercent(n, d) == (200 * n + d) \div (2 * d)

\* the containment branch scored by the first name only
calculateSimilarityOfFirst(a, b) ==
  LET s1 == NormalizedName(a)
      s2 == NormalizedName(b)
      minLen == Min(Len(s1), Len(s2))
      maxLen == Len(s1) + Len(s2) - minLen
  IN  IF s1 = s2 THEN 100
      ELSE IF Len(s1) = 0 \/ Len(s2) = 0 THEN 0
      ELSE IF Includes(s1, s2) \/ Includes(s2, s1) THEN RoundPercent(Len(s1), maxLen)
      ELSE RoundPercent(maxLen - Distance(s1, s2, 1, [j \in 1..(Len(s2) + 1) |-> j - 1]),
                        maxLen)

calculateSimilarity(a, b) ==
  LET s1 == NormalizedName(a)
      s2 == NormalizedName(b)
      minLen == Min(Len(s1), Len(s2))
      maxLen == Len(s1) + Len(s2) - minLen
  IN  IF s1 = s2 THEN 100
      ELSE IF Len(s1) = 0 \/ Len(s2) = 0 THEN 0
      ELSE IF Includes(s1, s2) \/ Includes(s2, s1) THEN RoundPercent(minLen, maxLen)
      ELSE RoundPercent(maxLen - Distance(s1, s2, 1, [j \in 1..(Len(s2) + 1) |-> j - 1]),
                        maxLen)

\* getAllMediaItems: the catalogue, newest first
getAllMediaItems(items) ==
  LET live == SelectSeq([i \in 1..Len(items) |-> i], LAMBDA i : ~items[i].deleted)
  IN  [k \in 1..Len(live) |-> live[Len(live) + 1 - k]]

\* Map.prototype.set on the groups, kept in insertion order: an existing
\* key keeps its place and gets the new value
MapSet(groups, key, members) ==
  IF \E g \in 1..Len(groups) : groups[g].key = key
  THEN [g \in 1..Len(groups) |->
          IF groups[g].key = key THEN [key |-> key, items |-> members] ELSE groups[g]]
  ELSE Append(groups, [key |-> key, items |-> members])

\* a joining member that is flagged as original too
JoinGroupAsOriginal(items, groups, id, threshold) ==
  LET sim(g) == calculateSimilarity(items[id].originalFilename,
                                    items[groups[g].items[1].id].originalFilename)
      fits == {g \in 1..Len(groups) : sim(g) >= threshold}
  IN  IF fits = {}
      THEN MapSet(groups, NormalizedName(items[id].originalFilename),
                  <<[id |-> id, similarity |-> 100, isOriginal |-> TRUE]>>)
      ELSE LET g == CHOOSE x \in fits : \A y \in fits : x <= y
           IN  [groups EXCEPT ![g].items =
                  Append(@, [id |-> id, similarity |-> sim(g), isOriginal |-> TRUE])]

\* the item joins the first group whose first member it resembles, else it
\* founds the group of its normalized name
JoinGroup(items, groups, id, threshold) ==
  LET sim(g) == calculateSimilarity(items[id].originalFilename,
                                    items[groups[g].items[1].id].originalFilename)
      fits == {g \in 1..Len(groups) : sim(g) >= threshold}
  IN  IF fits = {}
      THEN MapSet(groups, NormalizedName(items[id].originalFilename),
                  <<[id |-> id, similarity |-> 100, isOriginal |-> TRUE]>>)
      ELSE LET g == CHOOSE x \in fits : \A y \in fits : x <= y
           IN  [groups EXCEPT ![g].items =
                  Append(@, [id |-> id, similarity |-> sim(g), isOriginal |-> FALSE])]

RECURSIVE Cluster(_, _, _, _)
Cluster(items, order, groups, threshold) ==
  IF order = <<>> THEN groups
  ELSE Cluster(items, Tail(order),
               JoinGroup(items, groups, Head(order), threshold), threshold)

\* storage.findDuplicates: the member lists of the groups of more than one
\* item
findDuplicates(items, threshold) ==
  LET groups == Cluster(items, getAllMediaItems(items), <<>>, threshold)
      result == SelectSeq(groups, LAMBDA g : Len(g.items) > 1)
  IN  [g \in 1..Len(result) |-> result[g].items]

\* every member not flagged original becomes a duplicate of the member of
\* its group that is
MarkDuplicates(items, groups) ==
  [i \in 1..Len(items) |->
     IF \E g \in 1..Len(groups) :
          \E k \in 1..Len(groups[g]) : groups[g][k].id = i /\ ~groups[g][k].isOriginal
     THEN LET g == CHOOSE x \in 1..Len(groups) :
                     \E k \in 1..Len(groups[x]) :
                       groups[x][k].id = i /\ ~groups[x][k].isOriginal
              o == CHOOSE k \in 1..Len(groups[g]) :
                     /\ groups[g][k].isOriginal
                     /\ \A j \in 1..(k - 1) : ~groups[g][j].isOriginal
          IN  [items[i] EXCEPT !.status = "duplicate",
                               !.duplicateOf = groups[g][o].id]
     ELSE items[i]]

DuplicatesScan ==
  /\ issued < MaxRequests
  /\ issued' = issued + 1
  /\ mediaItems' = MarkDuplicates(mediaItems,
                                  findDuplicates(mediaItems, FuzzyMatchThreshold))
  /\ UNCHANGED <<textVars, cleanVars, pureVars, libVars, fs, moveVars, settings, scanJobs, organizeJobs,
                 scanReq, orgReq, direct>>

(***************************************************************************)
(* The whole service.                                                      *)
(***************************************************************************)
\* the files on disk at the start: any of the paths, each of the full size
InitialFileSystems == {f \in FileSystems : \A p \in DOMAIN f : f[p] = MaxSize}

Init ==
  /\ fs \in InitialFileSystems
  /\ mv = NoCall
  /\ before = fs
  /\ InitStore
  /\ tvSeries = <<>>
  /\ tmdbCache = FALSE
  /\ tree = NoTree
  /\ cl = NoCleanup
  /\ dup = NoDuplicates
  /\ shelf = NoShelf
  /\ consensus = NoConsensus
  /\ cleaned = NoCleaned
  /\ parsed = NoParse

Next ==
  \/ \E r \in Requests : ScanFolderCheck(r)
  \/ \E r \in Requests : ScanFolderCreate(r)
  \/ \E r \in Requests : ScanStart(r)
  \/ \E r \in Requests : ScanEnumerate(r)
  \/ \E r \in Requests : ScanFile(r)
  \/ \E r \in Requests : ScanProgress(r)
  \/ \E r \in Requests : ScanComplete(r)
  \/ \E r \in Requests : ScanLog(r)
  \/ \E r \in Requests : ScanLogThrows(r)
  \/ \E r \in Requests : ScanThrow(r)
  \/ ApiScan
  \/ \E q \in Requests : OrgJobCheck(q)
  \/ \E q \in Requests : OrgJobCreate(q)
  \/ \E q \in Requests : OrgJobFetch(q)
  \/ \E q \in Requests : OrgJobMove(q)
  \/ \E q \in Requests : OrgJobRecord(q)
  \/ \E q \in Requests : OrgJobSeries(q)
  \/ \E q \in Requests : OrgJobComplete(q)
  \/ \E q \in Requests : OrgJobThrow(q)
  \/ OrganizeStart
  \/ OrganizeFetch
  \/ OrganizeVerify
  \/ OrganizeMove
  \/ OrganizeRecord
  \/ OrganizeSeries
  \/ OrganizeRespond
  \/ RefreshStatus
  \/ DuplicatesScan

Spec == Init /\ [][Next]_vars

(***************************************************************************)
(* The library: scans and POST /api/organize over a TV destination stored  *)
(* with or without a trailing slash, with the metadata lookup at work when *)
(* an API key is configured, and with episode files already in place under *)
(* either series folder.                                                   *)
(***************************************************************************)
LibraryConfigurations ==
  {s \in AllConfigurations :
     s.folders = {"/in", "/tv"} /\ s.tvShowsDestination \in TvBases}

LibraryFileSystems ==
  UNION {[S -> {MaxSize}] : S \in SUBSET ({InE1, InE2} \cup AllLibraryPaths)}

InitLibrary ==
  /\ fs \in LibraryFileSystems
  /\ mv = NoCall
  /\ before = fs
  /\ settings \in LibraryConfigurations
  /\ mediaItems = <<>>
  /\ scanJobs = <<>>
  /\ organizeJobs = <<>>
  /\ scanReq = [r \in Requests |-> IdleScan]
  /\ orgReq = [q \in Requests |-> IdleOrganize]
  /\ direct = IdleOrganize
  /\ issued = 0
  /\ tvSeries = <<>>
  /\ tmdbCache = FALSE
  /\ tree = NoTree
  /\ cl = NoCleanup
  /\ dup = NoDuplicates
  /\ shelf = NoShelf
  /\ consensus = NoConsensus
  /\ cleaned = NoCleaned
  /\ parsed = NoParse

NextLibrary ==
  \/ \E r \in Requests : ScanFolderCheck(r)
  \/ \E r \in Requests : ScanFolderCreate(r)
  \/ \E r \in Requests : ScanStart(r)
  \/ \E r \in Requests : ScanEnumerate(r)
  \/ \E r \in Requests : ScanFile(r)
  \/ \E r \in Requests : ScanProgress(r)
  \/ \E r \in Requests : ScanComplete(r)
  \/ \E r \in Requests : ScanLog(r)
  \/ OrganizeStart
  \/ OrganizeFetch
  \/ OrganizeVerify
  \/ OrganizeMove
  \/ OrganizeRecord
  \/ OrganizeSeries
  \/ OrganizeRespond

SpecLibrary == InitLibrary /\ [][NextLibrary]_vars

(***************************************************************************)
(* The scan jobs alone, with the progress the event loop gives them: a     *)
(* handler or background scan that has a next step takes it.  Requests     *)
(* arrive, and storage calls throw, when they will.                        *)
(***************************************************************************)
\* no more files on disk than the catalogue of the model can hold
InitScan == Init /\ Cardinality(DOMAIN fs) <= MaxItems

\* the steps of a scan request once it is received
ScanRun(r) ==
  \/ ScanFolderCreate(r)
  \/ ScanStart(r)
  \/ ScanEnumerate(r)
  \/ ScanFile(r)
  \/ ScanProgress(r)
  \/ ScanComplete(r)
  \/ ScanLog(r)

NextScan ==
  \/ \E r \in Requests : ScanFolderCheck(r)
  \/ \E r \in Requests : ScanRun(r)
  \/ \E r \in Requests : ScanLogThrows(r)
  \/ \E r \in Requests : ScanThrow(r)

SpecScan ==
  InitScan /\ [][NextScan]_vars /\ \A r \in Requests : WF_vars(ScanRun(r))

(***************************************************************************)
(* The catalogue under scans, duplicate scans and deletions.               *)
(***************************************************************************)
\* DELETE /api/media-items/:id: storage.deleteMediaItem
DeleteItem ==
  /\ \E id \in 1..Len(mediaItems) :
       /\ ~mediaItems[id].deleted
       /\ mediaItems' = [mediaItems EXCEPT ![id].deleted = TRUE]
  /\ UNCHANGED <<textVars, cleanVars, pureVars, libVars, fs, moveVars, settings, scanJobs,
                 organizeJobs, runVars>>

NextCatalogue ==
  \/ NextScan
  \/ DuplicatesScan
  \/ DeleteItem

SpecCatalogue == InitScan /\ [][NextCatalogue]_vars

(***************************************************************************)
(* findDuplicates alone: calls on every catalogue of up to                 *)
(* MaxDuplicateItems of the names, with every threshold.                   *)
(***************************************************************************)
MaxDuplicateItems == 5

InitDuplicates ==
  /\ fs = <<>>
  /\ mv = NoCall
  /\ before = fs
  /\ InitStore
  /\ settings.folders = {"/in"} /\ HasDestination(settings)
  /\ tvSeries = <<>>
  /\ tmdbCache = FALSE
  /\ tree = NoTree
  /\ cl = NoCleanup
  /\ dup = NoDuplicates
  /\ shelf = NoShelf
  /\ consensus = NoConsensus
  /\ cleaned = NoCleaned
  /\ parsed = NoParse

\* createMediaItem: one more pending item of one of the names
AddItem ==
  /\ ~dup.called
  /\ Len(mediaItems) < MaxDuplicateItems
  /\ \E p \in DuplicateNames :
       mediaItems' = Append(mediaItems, NewItem(p, "", "pending"))
  /\ UNCHANGED <<textVars, cleanVars, pureVars, libVars, fs, moveVars, settings, scanJobs,
                 organizeJobs, runVars>>

\* storage.findDuplicates(threshold)
FindDuplicates ==
  /\ ~dup.called
  /\ \E t \in Thresholds :
       dup' = [called |-> TRUE, threshold |-> t,
               groups |-> findDuplicates(mediaItems, t)]
  /\ UNCHANGED <<textVars, cleanVars, parsed, libVars, fs, moveVars, storeVars, runVars>>

NextDuplicates ==
  \/ AddItem
  \/ FindDuplicates

SpecDuplicates == InitDuplicates /\ [][NextDuplicates]_vars

(***************************************************************************)
(* parseMediaFilename alone: one call on every file name of up to          *)
(* MaxNameLen characters.                                                  *)
(***************************************************************************)
InitParse ==
  /\ fs = <<>>
  /\ mv = NoCall
  /\ before = fs
  /\ InitStore
  /\ settings.folders = {"/in"} /\ HasDestination(settings)
  /\ tvSeries = <<>>
  /\ tmdbCache = FALSE
  /\ tree = NoTree
  /\ cl = NoCleanup
  /\ dup = NoDuplicates
  /\ shelf = NoShelf
  /\ consensus = NoConsensus
  /\ cleaned = NoCleaned
  /\ \E n \in 0..MaxNameLen : \E f \in [1..n -> Characters] :
       parsed = [NoParse EXCEPT !.filename = f]

ParseFilename ==
  /\ ~parsed.called
  /\ LET result == parseMediaFilename(parsed.filename)
     IN  parsed' = [filename |-> parsed.filename, called |-> TRUE,
                    type |-> result.type, season |-> result.season,
                    episode |-> result.episode]
  /\ UNCHANGED <<textVars, cleanVars, dup, libVars, fs, moveVars, storeVars, runVars>>

NextParse == ParseFilename

SpecParse == InitParse /\ [][NextParse]_vars

(***************************************************************************)
(* cleanupEmptyFolders alone: calls on every tree, one loop iteration per  *)
(* step.                                                                   *)
(***************************************************************************)
InitCleanup ==
  /\ fs = <<>>
  /\ mv = NoCall
  /\ before = fs
  /\ InitStore
  /\ settings.folders = {"/in"} /\ HasDestination(settings)
  /\ tvSeries = <<>>
  /\ tmdbCache = FALSE
  /\ tree \in Trees
  /\ cl = NoCleanup
  /\ dup = NoDuplicates
  /\ shelf = NoShelf
  /\ consensus = NoConsensus
  /\ cleaned = NoCleaned
  /\ parsed = NoParse

\* cleanupEmptyFolders(filePath, rootBoundaries) for a file that was just
\* moved out of an existing directory: currentDir = path.dirname(filePath)
CleanupCall ==
  /\ cl.pc = "idle"
  /\ \E d \in tree.dirs, roots \in RootLists :
       cl' = [pc |-> "loop", currentDir |-> d, roots |-> roots, deleted |-> <<>>]
  /\ tree' = tree
  /\ UNCHANGED <<textVars, pureVars, fs, moveVars, storeVars, runVars, libVars>>

\* the loop ends: the root of the filesystem, or a root boundary
CleanupStop ==
  /\ cl.pc = "loop"
  /\ cl.currentDir = "/" \/ HitsBoundary(cl.currentDir, cl.roots)
  /\ cl' = [cl EXCEPT !.pc = "done"]
  /\ tree' = tree
  /\ UNCHANGED <<textVars, pureVars, fs, moveVars, storeVars, runVars, libVars>>

\* the directory is not empty, or readdir / rmdir throws: break
CleanupBreak ==
  /\ cl.pc = "loop"
  /\ cl.currentDir # "/" /\ ~HitsBoundary(cl.currentDir, cl.roots)
  /\ cl' = [cl EXCEPT !.pc = "done"]
  /\ tree' = tree
  /\ UNCHANGED <<textVars, pureVars, fs, moveVars, storeVars, runVars, libVars>>

\* the directory is empty: rmdir, and on to its parent
CleanupRemove ==
  /\ cl.pc = "loop"
  /\ cl.currentDir # "/" /\ ~HitsBoundary(cl.currentDir, cl.roots)
  /\ cl.currentDir \in tree.dirs
  /\ Contents(tree, cl.currentDir) = 0
  /\ tree' = Rmdir(tree, cl.currentDir)
  /\ cl' = [cl EXCEPT !.deleted = Append(@, cl.currentDir),
                      !.currentDir = Parent(cl.currentDir)]
  /\ UNCHANGED <<textVars, pureVars, fs, moveVars, storeVars, runVars, libVars>>

NextCleanup ==
  \/ CleanupCall
  \/ CleanupStop
  \/ CleanupBreak
  \/ CleanupRemove

SpecCleanup == InitCleanup /\ [][NextCleanup]_vars

(***************************************************************************)
(* Destinations and series records under one TV base path: the scan builds *)
(* the destination of a new file and, for a file that sits in the library, *)
(* registers its series at once; the organize requests register the series *)
(* of an item they moved.                                                  *)
(***************************************************************************)
InitShelf ==
  /\ fs = [p \in {} |-> MaxSize]
  /\ mv = NoCall
  /\ before = fs
  /\ settings = [folders |-> {"/in"}, tvShowsDestination |-> "",
                 tmdbApiKey |-> FALSE]
  /\ mediaItems = <<>>
  /\ scanJobs = <<>>
  /\ organizeJobs = <<>>
  /\ scanReq = [r \in Requests |-> IdleScan]
  /\ orgReq = [q \in Requests |-> IdleOrganize]
  /\ direct = IdleOrganize
  /\ issued = 0
  /\ tvSeries = <<>>
  /\ tmdbCache = FALSE
  /\ tree = NoTree
  /\ cl = NoCleanup
  /\ dup = NoDuplicates
  /\ parsed = NoParse
  /\ shelf \in {[NoShelf EXCEPT !.base = b] : b \in ShelfBases}
  /\ consensus = NoConsensus
  /\ cleaned = NoCleaned

ShelfUnchanged ==
  UNCHANGED <<consensus, cleaned, cleanVars, pureVars, libVars, fs, moveVars,
              storeVars, runVars>>

\* runBackgroundScan for one episode file: a file found in the library is
\* catalogued as organized and its series registered; any other file is
\* catalogued as pending with its destination
ShelfScan(e, tmdb, inLibrary) ==
  /\ Len(shelf.items) < MaxShelfItems
  /\ LET d == generateDestinationParts(shelf.base, e, tmdb, shelf.series)
     IN  shelf' = [shelf EXCEPT
                     !.items = Append(@, [destinationPath |-> d,
                                          status |-> IF inLibrary THEN "organized"
                                                     ELSE "pending"]),
                     !.series = IF inLibrary THEN RegisterSeries(@, d) ELSE @]
  /\ ShelfUnchanged

\* POST /api/organize for the pending item i, its file moved
ShelfOrganize(i) ==
  /\ i \in 1..Len(shelf.items)
  /\ shelf.items[i].status = "pending"
  /\ shelf' = [shelf EXCEPT
                 !.items[i].status = "organized",
                 !.series = RegisterSeries(@, shelf.items[i].destinationPath)]
  /\ ShelfUnchanged

\* an organize job for the pending item i, its file moved
ShelfOrganizeJob(i) ==
  /\ i \in 1..Len(shelf.items)
  /\ shelf.items[i].status = "pending"
  /\ shelf' = [shelf EXCEPT
                 !.items[i].status = "organized",
                 !.series = RegisterSeries(@, shelf.items[i].destinationPath)]
  /\ ShelfUnchanged

NextShelf ==
  \/ \E e \in Episodes, tmdb \in BOOLEAN, inLibrary \in BOOLEAN :
       ShelfScan(e, tmdb, inLibrary)
  \/ \E i \in 1..MaxShelfItems : ShelfOrganize(i)
  \/ \E i \in 1..MaxShelfItems : ShelfOrganizeJob(i)

SpecShelf == InitShelf /\ [][NextShelf]_vars

(***************************************************************************)
(* A directory listing and the consensus call on it.                       *)
(***************************************************************************)
InitConsensus ==
  /\ fs = [p \in {} |-> MaxSize]
  /\ mv = NoCall
  /\ before = fs
  /\ settings = [folders |-> {"/in"}, tvShowsDestination |-> "",
                 tmdbApiKey |-> FALSE]
  /\ mediaItems = <<>>
  /\ scanJobs = <<>>
  /\ organizeJobs = <<>>
  /\ scanReq = [r \in Requests |-> IdleScan]
  /\ orgReq = [q \in Requests |-> IdleOrganize]
  /\ direct = IdleOrganize
  /\ issued = 0
  /\ tvSeries = <<>>
  /\ tmdbCache = FALSE
  /\ tree = NoTree
  /\ cl = NoCleanup
  /\ dup = NoDuplicates
  /\ parsed = NoParse
  /\ shelf = NoShelf
  /\ consensus = NoConsensus
  /\ cleaned = NoCleaned

\* the directory walk finds one more video file
ConsensusAddFile(name) ==
  /\ ~consensus.called
  /\ \A k \in 1..Len(consensus.filenames) : consensus.filenames[k] # name
  /\ Len(consensus.filenames) < MaxSiblings
  /\ consensus' = [consensus EXCEPT !.filenames = Append(@, name)]
  /\ UNCHANGED <<shelf, cleaned, cleanVars, pureVars, libVars, fs, moveVars,
                 storeVars, runVars>>

\* const consensusName = findSeriesNameByConsensus(filenames)
ConsensusCall ==
  /\ ~consensus.called
  /\ consensus' = [consensus EXCEPT
                     !.called = TRUE,
                     !.seriesName = findSeriesNameByConsensus(consensus.filenames)]
  /\ UNCHANGED <<shelf, cleaned, cleanVars, pureVars, libVars, fs, moveVars,
                 storeVars, runVars>>

NextConsensus ==
  \/ \E name \in SiblingNames : ConsensusAddFile(name)
  \/ ConsensusCall

SpecConsensus == InitConsensus /\ [][NextConsensus]_vars

(***************************************************************************)
(* cleanFilename applied to a file name, and again to its own result.      *)
(***************************************************************************)
InitClean ==
  /\ fs = [p \in {} |-> MaxSize]
  /\ mv = NoCall
  /\ before = fs
  /\ settings = [folders |-> {"/in"}, tvShowsDestination |-> "",
                 tmdbApiKey |-> FALSE]
  /\ mediaItems = <<>>
  /\ scanJobs = <<>>
  /\ organizeJobs = <<>>
  /\ scanReq = [r \in Requests |-> IdleScan]
  /\ orgReq = [q \in Requests |-> IdleOrganize]
  /\ direct = IdleOrganize
  /\ issued = 0
  /\ tvSeries = <<>>
  /\ tmdbCache = FALSE
  /\ tree = NoTree
  /\ cl = NoCleanup
  /\ dup = NoDuplicates
  /\ parsed = NoParse
  /\ shelf = NoShelf
  /\ consensus = NoConsensus
  /\ \E f \in FileNames, c \in BOOLEAN :
       cleaned = [NoCleaned EXCEPT !.filename = f, !.client = c]

\* cleanFilename(filename)
CleanFilename ==
  /\ cleaned.calls = 0
  /\ cleaned' = [cleaned EXCEPT
                   !.calls = 1,
                   !.once = cleanFilename(cleaned.filename, cleaned.client)]
  /\ UNCHANGED <<shelf, consensus, cleanVars, pureVars, libVars, fs, moveVars,
                 storeVars, runVars>>

\* cleanFilename of the result of the first call
CleanAgain ==
  /\ cleaned.calls = 1
  /\ cleaned' = [cleaned EXCEPT
                   !.calls = 2,
                   !.twice = cleanFilename(cleaned.once, cleaned.client)]
  /\ UNCHANGED <<shelf, consensus, cleanVars, pureVars, libVars, fs, moveVars,
                 storeVars, runVars>>

NextClean == CleanFilename \/ CleanAgain

SpecClean == InitClean /\ [][NextClean]_vars

(***************************************************************************)
(* Properties of the file mover (SpecMove).                                *)
(***************************************************************************)
MoveReturned == mv.pc = "done"

\* C1: whenever moveFileToDestination returns success = false, the file at
\* the source path still exists afterwards, whatever the filesystem steps did.
C1_FailedMoveKeepsSource ==
  (MoveReturned /\ ~mv.success /\ Exists(before, mv.src)) => Exists(fs, mv.src)

\* C2: in the EXDEV fallback the source is gone only once the destination
\* copy was stat'ed and found to have exactly the source's size; after a
\* size mismatch or a failed stat the source is still there.
C2_UnlinkOnlyAfterVerifiedCopy ==
  (mv.exdev /\ ~Exists(fs, mv.src)) =>
    (mv.destStat = "ok" /\ mv.destSize = mv.sourceSize
       /\ mv.sourceSize = before[mv.src])

C2_Witness ==
  /\ MoveReturned /\ mv.exdev /\ mv.success
  /\ ~Exists(fs, mv.src) /\ mv.destStat = "ok"

\* C3: whenever moveFileToDestination returns success = true, the source path
\* no longer exists and the destination exists with the byte size the source
\* had before the call, on the rename path and on the copy path.
C3_SuccessfulMoveRelocates ==
  (MoveReturned /\ mv.success) =>
    /\ ~Exists(fs, mv.src)
    /\ Exists(fs, mv.dst)
    /\ Exists(before, mv.src)
    /\ fs[mv.dst] = before[mv.src]

C3_Witness ==
  /\ MoveReturned /\ mv.success /\ ~mv.exdev
  /\ before[mv.src] = MaxSize /\ fs[mv.dst] = MaxSize

\* C4: if a file already exists at the destination when the call is made,
\* the call fails and no file (the destination and the source included) is
\* modified, moved or deleted at any point of the call.
C4_OccupiedDestinationUntouched ==
  (mv.pc # "idle" /\ Exists(before, mv.dst)) =>
    (fs = before /\ (MoveReturned => ~mv.success))

C4_Witness ==
  /\ MoveReturned /\ Exists(before, mv.dst) /\ Exists(before, mv.src)
  /\ mv.src # mv.dst /\ mv.error = "Destination already exists"

(***************************************************************************)
(* Properties of the service (Spec).                                       *)
(***************************************************************************)
\* C5: under every interleaving of POST /api/scan-folder requests and
\* background scans, at most one ScanJob is pending or running at any time.
C5_SingleActiveScanJob == Cardinality(ActiveJobs(scanJobs)) <= 1

\* C6: under every interleaving of POST /api/organize-jobs requests, at most
\* one OrganizeJob is pending or running and at most one organize run is in
\* its file loop at any time.
C6_SingleActiveOrganizeJob ==
  /\ Cardinality(ActiveJobs(organizeJobs)) <= 1
  /\ Cardinality({q \in Requests :
                    orgReq[q].pc \in {"fetch", "move", "record", "series",
                                     "complete"}}) <= 1

\* C7: once a ScanJob or an OrganizeJob is stored with status completed or
\* failed, no later update changes its status.
C7_TerminalStatusIsFinal ==
  [][/\ \A j \in 1..Len(scanJobs) :
          scanJobs[j].status \in TerminalStatuses
            => scanJobs'[j].status = scanJobs[j].status
     /\ \A j \in 1..Len(organizeJobs) :
          organizeJobs[j].status \in TerminalStatuses
            => organizeJobs'[j].status = organizeJobs[j].status]_vars

\* C8: from one update of a job to the next, until it is terminal, none of
\* the stored counters processedFiles, newItems, successCount, failedCount
\* decreases, and processedFiles never exceeds totalFiles.
C8_CountersNeverDecrease ==
  [][/\ \A j \in 1..Len(scanJobs) :
          scanJobs[j].status \notin TerminalStatuses
            => /\ scanJobs'[j].processedFiles >= scanJobs[j].processedFiles
               /\ scanJobs'[j].newItems >= scanJobs[j].newItems
               /\ scanJobs'[j].processedFiles <= scanJobs'[j].totalFiles
     /\ \A j \in 1..Len(organizeJobs) :
          organizeJobs[j].status \notin TerminalStatuses
            => /\ organizeJobs'[j].processedFiles >= organizeJobs[j].processedFiles
               /\ organizeJobs'[j].successCount >= organizeJobs[j].successCount
               /\ organizeJobs'[j].failedCount >= organizeJobs[j].failedCount
               /\ organizeJobs'[j].processedFiles <= organizeJobs'[j].totalFiles]_vars

\* an organize run (of a job or of POST /api/organize) records in this step
\* the successful move of item i
RecordsMovedItem(run, i) ==
  run.pc = "record" /\ run.moved /\ run.ids[run.pos] = i

\* C9 as stated: an item becomes organized only in the step in which an
\* organize run records the successful move of its file; no other operation
\* (scan, refresh-status, duplicate scan) puts an item into status organized.
C9_OrganizedOnlyByOrganize ==
  [][\A i \in 1..Len(mediaItems') :
       (/\ mediaItems'[i].status = "organized"
        /\ (i > Len(mediaItems) \/ mediaItems[i].status # "organized"))
       => \/ \E q \in Requests : RecordsMovedItem(orgReq[q], i)
          \/ RecordsMovedItem(direct, i)]_vars

\* C9 as the code has it: an item becomes organized only when an organize run
\* records the successful move of its file, or when a scan catalogues a file
\* that already sits at its own destination path, or when refresh-status
\* finds a pending item's source gone and its destination present; the
\* duplicate scan never does.
C9_OrganizedOnlyWhenFileInPlace ==
  [][\A i \in 1..Len(mediaItems') :
       (/\ mediaItems'[i].status = "organized"
        /\ (i > Len(mediaItems) \/ mediaItems[i].status # "organized"))
       => \/ \E q \in Requests : RecordsMovedItem(orgReq[q], i)
          \/ RecordsMovedItem(direct, i)
          \/ /\ i > Len(mediaItems)
             /\ \E r \in Requests :
                  /\ scanReq[r].pc = "file"
                  /\ scanReq'[r] # scanReq[r]
                  /\ NormalizePath(scanReq[r].files[scanReq[r].pos])
                       = NormalizePath(mediaItems'[i].destinationPath)
             /\ mediaItems'[i].originalPath = mediaItems'[i].destinationPath
             /\ Exists(fs, NormalizePath(mediaItems'[i].destinationPath))
          \/ /\ i <= Len(mediaItems)
             /\ mediaItems[i].status = "pending"
             /\ ~Exists(fs, NormalizePath(mediaItems[i].originalPath))
             /\ Exists(fs, NormalizePath(mediaItems[i].destinationPath))
             /\ mediaItems'[i].originalPath = mediaItems[i].destinationPath]_vars

\* all three ways have happened: a scan catalogued a file in place, and an
\* organize run moved another item's file to its destination
C9_Witness ==
  /\ Len(mediaItems) = 2
  /\ \E i, k \in 1..2 :
       /\ mediaItems[i].status = "organized"
       /\ mediaItems[i].originalFilename \in LibraryPaths
       /\ mediaItems[k].status = "organized"
       /\ mediaItems[k].originalFilename \in SourcePaths
       /\ mediaItems[k].originalPath = mediaItems[k].destinationPath
  /\ direct.successCount + orgReq[1].successCount > 0

\* the paths of the items that come later in the run's batch than the item
\* at hand, stand for another file and are ready to be moved: the source
\* present, the destination free
LaterPaths(run) ==
  UNION {{NormalizePath(mediaItems[run.ids[k]].originalPath),
          NormalizePath(mediaItems[run.ids[k]].destinationPath)} :
           k \in {n \in (run.pos + 1)..Len(run.ids) :
                    /\ run.ids[n] # run.ids[run.pos]
                    /\ getMediaItemById(mediaItems, run.ids[n]) # NoItem
                    /\ mediaItems[run.ids[n]].originalPath
                         # run.item.originalPath
                    /\ Exists(fs, NormalizePath(mediaItems[run.ids[n]].originalPath))
                    /\ ~Exists(fs, NormalizePath(
                                      mediaItems[run.ids[n]].destinationPath))}}

\* the run's move of the item at hand returns failure in this step
MoveFails(run, after) ==
  run.pc = "move" /\ after.pc = "record" /\ ~after.moved

\* C10: in an organize batch a failure is that item's alone: the failed move
\* leaves the files of the items still to come as they were, the failure is
\* recorded without a change to the catalogue, and the run goes on to the
\* next item.
C10_FailureIsLocal ==
  [][/\ \A q \in Requests :
          /\ MoveFails(orgReq[q], orgReq'[q])
               => \A p \in LaterPaths(orgReq[q]) :
                    Exists(fs', p) = Exists(fs, p)
          /\ (orgReq[q].pc = "record" /\ ~orgReq[q].moved
                 /\ orgReq'[q] # orgReq[q])
               => /\ mediaItems' = mediaItems
                  /\ orgReq'[q].pos = orgReq[q].pos + 1
                  /\ orgReq'[q].pc \in {"fetch", "complete"}
     /\ MoveFails(direct, direct')
          => \A p \in LaterPaths(direct) : Exists(fs', p) = Exists(fs, p)
     /\ (direct.pc = "record" /\ ~direct.moved /\ direct' # direct)
          => /\ mediaItems' = mediaItems
             /\ direct'.pos = direct.pos + 1
             /\ direct'.pc \in {"fetch", "complete"}]_vars

\* the run takes its step after a move that returned failure
RecordsFailure(run, after) ==
  run.pc = "record" /\ ~run.moved /\ after # run

\* C11: when the move of an item fails during organize, the step that
\* records the failure leaves every MediaItem (status, originalPath,
\* destinationPath) and every TvSeries record as it was, and no series write
\* follows for that item.
C11_FailedMoveLeavesRecords ==
  [][/\ \A q \in Requests :
          RecordsFailure(orgReq[q], orgReq'[q])
            => /\ mediaItems' = mediaItems
               /\ tvSeries' = tvSeries
               /\ orgReq'[q].pc # "series"
     /\ RecordsFailure(direct, direct')
          => /\ mediaItems' = mediaItems
             /\ tvSeries' = tvSeries
             /\ direct'.pc # "series"]_vars

\* a failed move of an existing pending item has been recorded: the item is
\* as it was fetched and there is no series record
C11_Witness ==
  /\ direct.failedCount > 0
  /\ direct.pc = "complete"
  /\ direct.item # NoItem
  /\ direct.item.status = "pending"
  /\ getMediaItemById(mediaItems, direct.ids[Len(direct.ids)]) = direct.item
  /\ tvSeries = <<>>

(***************************************************************************)
(* Properties of the library (SpecLibrary).                                *)
(***************************************************************************)
\* C12: once a TvSeries record has a folderPath, no scan or organize step
\* changes that folderPath.
C12_FolderPathIsStable ==
  [][\A k \in 1..Len(tvSeries) :
       tvSeries[k].folderPath # ""
         => tvSeries'[k].folderPath = tvSeries[k].folderPath]_vars

\* the series record has been updated for an episode whose destination lies
\* in another folder than the stored one
C12_Witness ==
  /\ tvSeries # <<>>
  /\ tvSeries[1].totalEpisodes >= 2
  /\ \E i \in 1..Len(mediaItems) :
       /\ mediaItems[i].status = "organized"
       /\ FolderOf(mediaItems[i].destinationPath) # tvSeries[1].folderPath

\* C13: when a series record with a stored folderPath exists, every episode
\* a scan catalogues afterwards gets a destination path whose series folder
\* is the stored folderPath, whether or not the metadata lookup returned a
\* result.
C13_EpisodesFollowStoredFolder ==
  [][(/\ Len(mediaItems') = Len(mediaItems) + 1
      /\ tvSeries # <<>>
      /\ tvSeries[1].folderPath # "")
     => FolderOf(mediaItems'[Len(mediaItems')].destinationPath)
          = tvSeries[1].folderPath]_vars

\* C15: a file newly catalogued by a background scan gets status organized
\* if its destination exists on disk and its source path is that destination
\* (as paths, runs of slashes collapsed), duplicate if the destination exists
\* and the source path is another one, and pending exactly when the
\* destination does not exist.
C15_ScanClassification ==
  [][Len(mediaItems') = Len(mediaItems) + 1
     => LET new == mediaItems'[Len(mediaItems')]
            there == Exists(fs, NormalizePath(new.destinationPath))
            same == NormalizePath(new.originalFilename)
                      = NormalizePath(new.destinationPath)
        IN  /\ (new.status = "organized") <=> (there /\ same)
            /\ (new.status = "duplicate") <=> (there /\ ~same)
            /\ (new.status = "pending") <=> ~there]_vars

\* one scan has catalogued a download as a duplicate of a file in place and
\* that file as organized
C15_Witness ==
  /\ Len(mediaItems) = 2
  /\ mediaItems[1].status = "duplicate"
  /\ mediaItems[1].originalPath \in SourcePaths
  /\ mediaItems[2].status = "organized"
  /\ mediaItems[2].originalPath = mediaItems[1].destinationPath
  /\ direct.pc = "idle"

\* C16: when a second background scan runs after a completed first one, with
\* no organize request (so no filesystem change) and the same settings, no
\* step of the second scan creates a MediaItem or changes a TvSeries record,
\* for every configured destination base path.
C16_RescanIsIdempotent ==
  [][(/\ direct.pc = "idle"
      /\ Len(scanJobs) = 2
      /\ scanJobs[1].status = "completed"
      /\ scanReq[1].pc = "done"
      /\ scanReq'[2] # scanReq[2])
     => /\ mediaItems' = mediaItems
        /\ tvSeries' = tvSeries
        /\ scanReq'[2].newItems = 0]_vars

(***************************************************************************)
(* Accounting of organize requests (Spec).                                 *)
(***************************************************************************)
\* C14: every id of an organize request is accounted for exactly once, as a
\* success or a failure: when POST /api/organize responds, organized plus
\* failed is the number of ids, and a completed OrganizeJob has successCount
\* + failedCount = totalFiles = processedFiles, also for ids that match no
\* MediaItem.
C14_EveryIdAccounted ==
  [][/\ (direct.pc = "complete" /\ direct'.pc = "done")
          => direct.successCount + direct.failedCount = Len(direct.ids)
     /\ \A j \in 1..Len(organizeJobs') :
          organizeJobs'[j].status = "completed"
            => /\ organizeJobs'[j].successCount + organizeJobs'[j].failedCount
                    = organizeJobs'[j].totalFiles
               /\ organizeJobs'[j].processedFiles = organizeJobs'[j].totalFiles]_vars

\* C18: an organize request with dryRun = true moves or deletes no media
\* file and changes no MediaItem, TvSeries or job record in any of its steps,
\* and each existing item it checks gets exactly one outcome, verified or
\* failed.
C18_DryRunChangesNothing ==
  [][(direct'.dryRun /\ direct' # direct)
     => /\ fs' = fs
        /\ mediaItems' = mediaItems
        /\ tvSeries' = tvSeries
        /\ scanJobs' = scanJobs
        /\ organizeJobs' = organizeJobs
        /\ direct.pc \notin {"move", "record", "series"}
        /\ direct.pc = "verify"
             => /\ direct'.successCount + direct'.failedCount
                     = direct.successCount + direct.failedCount + 1
                /\ direct'.pos = direct.pos + 1]_vars

\* a dry run over two pending items is through: one verified, one failed,
\* both items as they were
C18_Witness ==
  /\ direct.dryRun
  /\ direct.pc = "complete"
  /\ direct.successCount = 1
  /\ direct.failedCount = 1
  /\ Len(mediaItems) = 2
  /\ \A i \in 1..2 : mediaItems[i].status = "pending"


(***************************************************************************)
(* C17: cleanupEmptyFolders removes only directories that are empty and    *)
(* lie strictly below one of the configured source roots; it never removes *)
(* a root, a directory that is not empty, or a directory above or outside  *)
(* the roots.                                                              *)
(***************************************************************************)
\* d lies strictly below the directory r
StrictlyBelow(d, r) ==
  \/ Parent(d) = r
  \/ Parent(d) # "/" /\ Parent(Parent(d)) = r

C17_CleanupStaysBelowRoots ==
  [][\A d \in tree.dirs \ tree'.dirs :
       /\ Contents(tree, d) = 0
       /\ \A r \in cl.roots : d # NormalizeRoot(r)
       /\ \E r \in cl.roots : StrictlyBelow(d, NormalizeRoot(r))]_vars
(***************************************************************************)
(* C19: every group findDuplicates returns has at least two members,       *)
(* exactly one of them flagged isOriginal, and that one is the first; no   *)
(* item is in more than one group.                                         *)
(***************************************************************************)
C19_DuplicateGroupsWellFormed ==
  dup.called =>
    /\ \A g \in 1..Len(dup.groups) :
         /\ Len(dup.groups[g]) >= 2
         /\ dup.groups[g][1].isOriginal
         /\ \A k \in 2..Len(dup.groups[g]) : ~dup.groups[g][k].isOriginal
    /\ \A g, h \in 1..Len(dup.groups) :
         \A k \in 1..Len(dup.groups[g]), j \in 1..Len(dup.groups[h]) :
           dup.groups[g][k].id = dup.groups[h][j].id => g = h /\ k = j

\* two groups are returned while a third item stays on its own
C19_Witness ==
  /\ dup.called
  /\ Len(dup.groups) = 2
  /\ \E i \in 1..Len(mediaItems) :
       \A g \in 1..Len(dup.groups) :
         \A k \in 1..Len(dup.groups[g]) : dup.groups[g][k].id # i
(***************************************************************************)
(* C20: for every file name that contains S, a season of one or two        *)
(* digits, E and an episode of one to three digits, parseMediaFilename     *)
(* returns the type tvshow with season and episode equal to the captured   *)
(* integers, 0 included.                                                   *)
(***************************************************************************)
C20_SeasonEpisodeAsCaptured ==
  (parsed.called /\ SeasonEpisodeAt(parsed.filename) # {}) =>
    /\ parsed.type = "tvshow"
    /\ parsed.season = detectTVShowPattern(parsed.filename).season
    /\ parsed.episode = detectTVShowPattern(parsed.filename).episode
(***************************************************************************)
(* C21: in every result of parseMediaFilename, season and episode are      *)
(* either both null or both non-null.                                      *)
(***************************************************************************)
C21_SeasonEpisodeBothOrNeither ==
  parsed.called => ((parsed.season = Null) <=> (parsed.episode = Null))
(***************************************************************************)
(* C22: generateDestinationPath is a pure function of its arguments: a     *)
(* call returns the same path whichever TvSeries records exist at the      *)
(* time, so the path it returns in any state is the one the same call      *)
(* returns on an empty library.                                            *)
(***************************************************************************)
C22_DestinationIgnoresLibrary ==
  \A p \in SourcePaths, tmdb \in BOOLEAN :
    generateDestinationPath(p, settings.tvShowsDestination, tmdb, tvSeries)
      = generateDestinationPath(p, settings.tvShowsDestination, tmdb, <<>>)
(***************************************************************************)
(* C25: calculateSimilarity(x, x) = 100 for every file name x, and         *)
(* calculateSimilarity(x, y) = calculateSimilarity(y, x) whenever the      *)
(* result comes from the exact-match or the containment branch.  Checked   *)
(* on the names of the catalogue findDuplicates has compared.              *)
(***************************************************************************)
C25_SimilarityReflexiveSymmetric ==
  dup.called =>
    \A i, j \in 1..Len(mediaItems) :
      LET x == mediaItems[i].originalFilename
          y == mediaItems[j].originalFilename
          s1 == NormalizedName(x)
          s2 == NormalizedName(y)
      IN  /\ calculateSimilarity(x, x) = 100
          /\ (s1 = s2 \/ (s1 # <<>> /\ s2 # <<>>
                            /\ (Includes(s1, s2) \/ Includes(s2, s1))))
               => calculateSimilarity(x, y) = calculateSimilarity(y, x)

\* the catalogue compared holds a name that normalizes to the empty string,
\* two different names with equal normalized names, and two names one of
\* which contains the other
C25_Witness ==
  /\ dup.called
  /\ \E i \in 1..Len(mediaItems) : NormalizedName(mediaItems[i].originalFilename) = <<>>
  /\ \E i, j \in 1..Len(mediaItems) :
       /\ mediaItems[i].originalFilename # mediaItems[j].originalFilename
       /\ NormalizedName(mediaItems[i].originalFilename)
            = NormalizedName(mediaItems[j].originalFilename)
  /\ \E i, j \in 1..Len(mediaItems) :
       LET s1 == NormalizedName(mediaItems[i].originalFilename)
           s2 == NormalizedName(mediaItems[j].originalFilename)
       IN  s1 # s2 /\ s2 # <<>> /\ Includes(s1, s2)
(***************************************************************************)
(* C27: when a scan and an organize run that record episodes of the same   *)
(* series interleave, no update is lost: once no organize run is between   *)
(* reading and writing the series, there is exactly one TvSeries record    *)
(* for the series and its totalEpisodes is the number of episodes recorded *)
(* (the items catalogued or moved as organized).                           *)
(***************************************************************************)
C27_NoLostSeriesUpdate ==
  (direct.pc # "series" /\ \A q \in Requests : orgReq[q].pc # "series") =>
    LET recorded == {i \in 1..Len(mediaItems) : mediaItems[i].status = "organized"}
    IN  /\ Len(tvSeries) <= 1
        /\ recorded # {} => Len(tvSeries) = 1
        /\ tvSeries # <<>> => tvSeries[1].totalEpisodes = Cardinality(recorded)
(***************************************************************************)
(* C28: the dry run is a sound pre-flight: when it reports an item as      *)
(* verified, the real move of that item on the same filesystem can         *)
(* succeed.                                                                *)
(***************************************************************************)
C28_VerifiedItemsCanMove ==
  [][(direct.pc = "verify" /\ direct'.successCount = direct.successCount + 1)
       => \E n \in moveFileToDestination(NormalizePath(direct.item.originalPath),
                                         NormalizePath(direct.item.destinationPath),
                                         fs) : n.c.success]_vars
(***************************************************************************)
(* C26: every ScanJob created by POST /api/scan-folder is eventually       *)
(* started and reaches completed or failed, whatever the settings, so no   *)
(* job stays pending for ever.                                             *)
(***************************************************************************)
C26_EveryScanJobEnds ==
  \A j \in 1..MaxRequests :
    (Len(scanJobs) >= j)
      ~> (Len(scanJobs) >= j /\ scanJobs[j].status \in TerminalStatuses)
(***************************************************************************)
(* C29: after any sequence of scans, duplicate scans and deletions, every  *)
(* MediaItem with a duplicateOf references an existing MediaItem other     *)
(* than itself whose own status is not duplicate.                          *)
(***************************************************************************)
C29_DuplicateOfIsAnOriginal ==
  \A i \in 1..Len(mediaItems) :
    (~mediaItems[i].deleted /\ mediaItems[i].duplicateOf # 0) =>
      LET o == mediaItems[i].duplicateOf
      IN  /\ o # i
          /\ o \in 1..Len(mediaItems)
          /\ ~mediaItems[o].deleted
          /\ mediaItems[o].status # "duplicate"

\* C30: whenever a TvSeries record is created, its folderPath is the segment
\* of the creating item's destination path directly after the configured TV
\* base path, whether the base path has one segment or several.
C30_FolderPathIsSeriesFolder ==
  [][Len(shelf'.series) > Len(shelf.series)
     => \E i \in 1..Len(shelf'.items) :
          /\ shelf'.items[i].status = "organized"
          /\ (i > Len(shelf.items) \/ shelf.items[i].status = "pending")
          /\ shelf'.series[Len(shelf'.series)].folderPath
               = SeriesComponent(shelf.base, shelf'.items[i].destinationPath)]_vars


\* C23: for a directory of at least two file names that have series tokens,
\* the consensus name is the rendering of their longest common token prefix
\* whenever that prefix has at least one token, at least one non-numeric
\* token, is matched by at least ceil(0.7 x siblings) of them and renders to
\* at least 3 characters; the two Scenario B names give "Mirzapur".
C23_ConsensusAcceptsCommonPrefix ==
  consensus.called =>
    LET tokenArrays == SeriesTokenArrays(consensus.filenames)
        prefix == longestCommonPrefix(tokenArrays)
    IN  /\ ( /\ Len(tokenArrays) >= 2
             /\ Len(prefix) >= 1
             /\ \E i \in 1..Len(prefix) : ~isNumeric(prefix[i])
             /\ MatchCount(tokenArrays, prefix) >= MinOverlap(Len(tokenArrays))
             /\ Len(RenderName(prefix)) >= 3 )
           => consensus.seriesName = RenderName(prefix)
        /\ consensus.filenames = <<ScenarioB1, ScenarioB2>>
           => consensus.seriesName = "Mirzapur"

\* C24: cleanFilename is idempotent, on the server and on the client:
\* cleaning the cleaned name of any file name gives the cleaned name again.
C24_CleanFilenameIdempotent ==
  cleaned.calls = 2 => cleaned.twice = cleaned.once
====
